---- MODULE Spec2Model ----
(***************************************************************************)
(* Sign buffer, debounce timer and translation dispatch of SignSpeak       *)
(* (src/src/services/geminiService.js).                                     *)
(*                                                                         *)
(* The module-level state of geminiService.js (signBuffer, bufferTimer,    *)
(* lastSignTime) is modelled together with the host's timer table, the     *)
(* translations that are awaiting the backend, and the clock Date.now().   *)
(* History variables (calls, fires, delivered, accepted, ...) record what  *)
(* the callers observed; they never influence the program's variables.     *)
(*                                                                         *)
(* Timing: JavaScript is single threaded, every handler runs to its first  *)
(* await without interleaving.  A pending setTimeout callback runs at its   *)
(* deadline: the clock does not pass the deadline of a pending timer; a    *)
(* call arriving in the very millisecond of the deadline may run before or *)
(* after the timer callback.                                               *)
(***************************************************************************)
EXTENDS Integers, Sequences, FiniteSets, TLC

\* ---------------------------------------------------------------- bounds
Epoch == 5000          \* Date.now() when the session starts
MaxTime == 4000        \* callers act up to Epoch + MaxTime
MaxCalls == 3          \* addSignToBuffer calls in one behaviour
MaxClears == 1         \* clearSignBuffer calls in one behaviour
MaxMutations == 1      \* changes a caller makes to an array it was handed
MaxFrames == 3         \* camera frames handed to onResults in one behaviour
MaxInitCalls == 4      \* initializeGestureRecognizer calls in one behaviour

\* --------------------------------------------------- program constants
RejectWindow == 3000   \* "now - lastSignTime < 3000"
FlushDelay == 4000     \* setTimeout(..., 4000)

\* ------------------------------------------------------------- inputs
Labels == {"ONE", "TWO", "STOP"}
\* the (callback, useGemini) pairs callers pass to addSignToBuffer
Handlers == {[callback |-> "cbA", useGemini |-> FALSE],
             [callback |-> "cbB", useGemini |-> TRUE]}
\* instants (ms after Epoch) at which the environment may act
TimePoints == {0, 500, 600, 2000, 3999, 4000}
\* the labels and instants of the callers in the liveness specification
PauseLabels == {"ONE", "TWO"}
PauseTimePoints == {0, 2000, 4000}
\* error.message of what the translation backend may throw
BackendErrors == {"Failed to fetch"}
\* what response.text() of the translation backend may be
BackendTexts == {" \n", "One, two.\n"}

NoTimer == 0           \* bufferTimer = null

VARIABLES
  now,           \* Date.now()
  signBuffer,    \* let signBuffer = []
  bufferTimer,   \* let bufferTimer = null   (a timer id, or NoTimer)
  lastSignTime,  \* let lastSignTime = 0
  timers,        \* the host's pending setTimeout entries
  nextTimerId,   \* ids the host hands out, never reused
  inflight,      \* translateSignSequence calls awaiting the backend
  ret,           \* value returned by the last addSignToBuffer call
  calls,         \* history: every addSignToBuffer call
  fires,         \* history: every timer callback that found a non-empty buffer
  delivered,     \* history: every callback invocation (via: how the result arose)
  accepted,      \* history: labels accepted since the last flush or clear
  clears,        \* history: every clearSignBuffer call
  cancelled,     \* history: ids of timers cancelled while pending
  retLive,       \* the array last returned is the live signBuffer object itself
  mutations,     \* history: times a caller changed the array it was handed
  hand,          \* the hand handed to the classifiers (<<>>: none)
  classified,    \* what classifyASLSign resolved with (<<>>: not called)
  recognized,    \* what recognizeSign returned (<<>>: not called)
  gestureRecognizer, \* let gestureRecognizer = null (0), else the instance
  isInitializing,    \* let isInitializing = false
  created,       \* history: recognizer instances created so far
  pc,            \* where each caller of initializeGestureRecognizer stands
  active,        \* history: the pending call of each caller (0: none)
  initCalls,     \* history: every initializeGestureRecognizer call
  mounted,       \* "let mounted" of HandTracker's effect (Translator is shown)
  tracking,      \* hands.onResults(onResults) is registered, camera started
  lastSignRef,   \* lastSignRef.current (<<>>: null)
  frame,         \* the results each onResults call was given, and its loop i
  user,          \* the user state of Translator (<<>>: null)
  onSignDetected, \* the prop value that the effect of HandTracker closed over
  seen,          \* history: the last pass of the loop of onResults
  handsLeft,     \* history: calls made before the last frame with no hand
  handled,       \* history: what handleTranslation did with each result
  window,        \* this.window of the exported signSmoother
  stable,        \* what getStableSign returned in this state (<<>>: not called)
  passed,        \* history: the callback and useGemini given to each call of
                 \* calls, where the specification records them
  asked,         \* the call of one of the one-shot helpers (<<>>: none)
  answered       \* what that call resolved with (<<>>: pending)

progVars == <<signBuffer, bufferTimer, lastSignTime, timers, nextTimerId, inflight>>
vars == <<now, signBuffer, bufferTimer, lastSignTime, timers, nextTimerId,
          inflight, ret, calls, fires, delivered, accepted, clears, cancelled,
          retLive, mutations, hand, classified, recognized,
          gestureRecognizer, isInitializing, created, pc, active, initCalls,
          mounted, tracking, lastSignRef, frame, user, onSignDetected, seen,
          handsLeft, handled, window, stable, passed, asked,
          answered>>

\* the variables of the buffer and of its histories
vars_buffer == <<now, signBuffer, bufferTimer, lastSignTime, timers,
                 nextTimerId, inflight, ret, calls, fires, delivered,
                 accepted, clears, cancelled, retLive, mutations>>

\* the variables of the components around the buffer
classifierVars == <<hand, classified, recognized>>
recognizerVars == <<gestureRecognizer, isInitializing, created, pc, active,
                    initCalls>>
trackerVars == <<mounted, tracking, lastSignRef, frame, user, onSignDetected,
                 seen, handsLeft, handled>>
smootherVars == <<window, stable>>
\* what no step of the recognizer or of HandTracker touches
callerVars == <<passed>>
helperVars == <<asked, answered>>
sideVars == <<classifierVars, smootherVars, callerVars, helperVars>>
extVars == <<classifierVars, recognizerVars, trackerVars, smootherVars,
             callerVars, helperVars>>

\* ------------------------------------------------------------ helpers
\* a join that drops the separator
RECURSIVE Join_NoSep(_, _)
Join_NoSep(signs, sep) ==
  IF signs = <<>> THEN "" ELSE signs[1] \o Join_NoSep(Tail(signs), sep)

\* Array.prototype.join(sep)
RECURSIVE Join(_, _)
Join(signs, sep) ==
  IF signs = <<>> THEN ""
  ELSE IF Len(signs) = 1 THEN signs[1]
  ELSE signs[1] \o sep \o Join(Tail(signs), sep)

\* a duplicate test that looks at the first entry of the buffer
LastIs_First(buf, signName) == Len(buf) > 0 /\ buf[1] = signName

\* signBuffer.length > 0 && signBuffer[signBuffer.length - 1] === signName
LastIs(buf, signName) == Len(buf) > 0 /\ buf[Len(buf)] = signName

\* a first check that looks at the elapsed time alone
RapidDuplicate_TimeOnly(buf, signName, t, lst) == t - lst < RejectWindow

\* first check of addSignToBuffer: rapid duplicate
RapidDuplicate(buf, signName, t, lst) ==
  LastIs(buf, signName) /\ t - lst < RejectWindow

\* addSignToBuffer without its second check
ConsecutiveDuplicate_Off(buf, signName) == FALSE

\* second check of addSignToBuffer: consecutive duplicate
ConsecutiveDuplicate(buf, signName) == LastIs(buf, signName)

\* the call returns early without adding
Rejected(buf, signName, t, lst) ==
  RapidDuplicate(buf, signName, t, lst) \/ ConsecutiveDuplicate(buf, signName)

\* a clearTimeout that cancels nothing
ClearTimeout_Noop(ts, id) == ts

\* clearTimeout(id): a no-op for null, fired or already cancelled ids
ClearTimeout(ts, id) == {tm \in ts : tm.id # id}

\* a default parameter that turns the backend on
UseGeminiOf_DefaultTrue(args) == IF args = <<>> THEN TRUE ELSE args[1]

\* the parameter "useGemini = false": args is the argument list after the
\* callback, <<>> when the caller omits the argument
UseGeminiOf(args) == IF args = <<>> THEN FALSE ELSE args[1]

\* setTimeout(fn, delay): fn closes over callback and useGemini (the argument
\* list is kept with it for the history)
SetTimeout(ts, id, t, delay, callback, args) ==
  ts \cup {[id |-> id, deadline |-> t + delay, callback |-> callback,
            useGemini |-> UseGeminiOf(args), arg |-> args]}

\* ids of the timers that clearTimeout(id) takes out of the pending set
Cancels(ts, id) == {tm.id : tm \in {x \in ts : x.id = id}}

\* a flush that copies the buffer but leaves the live buffer as it is
FlushBuffer_KeepsLive(buf) == [signsToTranslate |-> buf, signBuffer |-> buf]

\* timer callback: const signsToTranslate = [...signBuffer]; signBuffer = []
FlushBuffer(buf) == [signsToTranslate |-> buf, signBuffer |-> <<>>]

\* a return of the live array itself instead of a copy
ReturnCopy_Alias(buf) == [value |-> buf, live |-> TRUE]

\* return [...signBuffer]: a new array with the same entries
ReturnCopy(buf) == [value |-> buf, live |-> FALSE]

\* getSignBuffer()
getSignBuffer == ReturnCopy(signBuffer).value

\* the characters String.prototype.trim removes (those the inputs use)
Whitespace == {" ", "\t", "\n", "\r"}

\* text.trim(): whitespace and line ends off both ends
RECURSIVE Trim(_)
Trim(text) ==
  IF Len(text) = 0 THEN text
  ELSE IF SubSeq(text, 1, 1) \in Whitespace
         THEN Trim(SubSeq(text, 2, Len(text)))
  ELSE IF SubSeq(text, Len(text), Len(text)) \in Whitespace
         THEN Trim(SubSeq(text, 1, Len(text) - 1))
  ELSE text

\* the object the direct branch hands to the callback
DirectResult(signs) ==
  [success |-> TRUE, translation |-> Join(signs, " "), originalSigns |-> signs,
   displaySigns |-> signs, method |-> "direct"]

\* a success branch that reports failure
GeminiResult_NoSuccess(signs, text) ==
  [success |-> FALSE, translation |-> text, originalSigns |-> signs,
   displaySigns |-> signs, method |-> "gemini-context"]

\* what the callback gets when the backend answered
GeminiResult(signs, text) ==
  [success |-> TRUE, translation |-> text, originalSigns |-> signs,
   displaySigns |-> signs, method |-> "gemini-context"]

\* a catch block that gives up the translation text
FallbackResult_NoText(signs, message) ==
  [success |-> FALSE, translation |-> "", originalSigns |-> signs,
   displaySigns |-> signs, method |-> "fallback-direct", error |-> message]

\* what the callback gets when translateSignSequence took its catch block
FallbackResult(signs, message) ==
  [success |-> FALSE, translation |-> Join(signs, " "), originalSigns |-> signs,
   displaySigns |-> signs, method |-> "fallback-direct", error |-> message]

\* handleTranslation(result): the text the Translator shows (setTranslation)
DisplayedText(result) ==
  IF result.success THEN result.translation
  ELSE IF result.translation # "" THEN result.translation
  ELSE Join(result.originalSigns, " ")

\* --------------------------------------------------------- classifiers
\* Landmark coordinates are in hundredths of the normalised image size, and
\* confidences and scores in percent.  A hand holds what the classifiers read
\* of the 21 landmarks: per finger the distances of tip and mcp from the
\* wrist, the y of wrist, thumb tip, thumb base and middle tip, the distance
\* between index tip and middle tip, and |thumbTip.x - indexTip.x|.
Fingers == {"thumb", "index", "middle", "ring", "pinky"}
NoSign == "null"       \* sign: null

\* const RELIABLE_SIGNS = [...]
RELIABLE_SIGNS ==
  <<"1", "2", "3", "4", "5", "YES", "HELLO", "STOP", "PEACE", "LOVE", "L", "Y">>

\* getSupportedSigns()
getSupportedSigns == RELIABLE_SIGNS

\* isFingerExtended: distance(tip, wrist) > distance(mcp, wrist)
isFingerExtended(landmarks, f) == landmarks.tipDist[f] > landmarks.mcpDist[f]

\* [thumbExt, ...].filter(Boolean).length
extendedCount(landmarks) ==
  Cardinality({f \in Fingers : isFingerExtended(landmarks, f)})

\* detectReliableSign(landmarks): the branches in source order
detectReliableSign(landmarks) ==
  LET thumbExt == isFingerExtended(landmarks, "thumb")
      indexExt == isFingerExtended(landmarks, "index")
      middleExt == isFingerExtended(landmarks, "middle")
      ringExt == isFingerExtended(landmarks, "ring")
      pinkyExt == isFingerExtended(landmarks, "pinky")
  IN
  IF extendedCount(landmarks) = 0 THEN [sign |-> "STOP", confidence |-> 90]
  ELSE IF thumbExt /\ ~indexExt /\ ~middleExt /\ ~ringExt /\ ~pinkyExt
          /\ landmarks.thumbTipY < landmarks.wristY - 12
    THEN [sign |-> "YES", confidence |-> 95]
  ELSE IF ~thumbExt /\ indexExt /\ ~middleExt /\ ~ringExt /\ ~pinkyExt
    THEN [sign |-> "1", confidence |-> 92]
  ELSE IF ~thumbExt /\ indexExt /\ middleExt /\ ~ringExt /\ ~pinkyExt
    THEN IF landmarks.separation > 9
           THEN [sign |-> "PEACE", confidence |-> 93]
           ELSE [sign |-> "2", confidence |-> 90]
  ELSE IF thumbExt /\ indexExt /\ middleExt /\ ~ringExt /\ ~pinkyExt
    THEN [sign |-> "3", confidence |-> 92]
  ELSE IF ~thumbExt /\ indexExt /\ middleExt /\ ringExt /\ pinkyExt
    THEN [sign |-> "4", confidence |-> 92]
  ELSE IF thumbExt /\ indexExt /\ middleExt /\ ringExt /\ pinkyExt
    THEN IF landmarks.middleTipY < landmarks.wristY - 15
           THEN [sign |-> "HELLO", confidence |-> 91]
           ELSE [sign |-> "5", confidence |-> 90]
  ELSE IF thumbExt /\ indexExt /\ ~middleExt /\ ~ringExt /\ ~pinkyExt
          /\ landmarks.angle > 12
    THEN [sign |-> "L", confidence |-> 90]
  ELSE IF ~thumbExt /\ indexExt /\ ~middleExt /\ ~ringExt /\ pinkyExt
    THEN [sign |-> "LOVE", confidence |-> 90]
  ELSE IF thumbExt /\ ~indexExt /\ ~middleExt /\ ~ringExt /\ pinkyExt
    THEN [sign |-> "Y", confidence |-> 90]
  ELSE IF thumbExt /\ ~indexExt /\ ~middleExt /\ ~ringExt /\ ~pinkyExt
          /\ landmarks.thumbTipY > landmarks.thumbBaseY + 5
          /\ landmarks.thumbTipY > landmarks.wristY + 8
    THEN [sign |-> "NO", confidence |-> 88]
  ELSE [sign |-> NoSign, confidence |-> 0]

\* a classifyASLSign without its try block
classifyASLSign_NoCatch(landmarks) ==
  IF landmarks.length # 21
    THEN [sign |-> NoSign, confidence |-> 0, method |-> "none"]
  ELSE IF landmarks.broken
    THEN [sign |-> NoSign, confidence |-> 0, method |-> "threw"]
  ELSE LET result == detectReliableSign(landmarks) IN
    IF result.sign # NoSign /\ result.confidence >= 85
      THEN [sign |-> result.sign, confidence |-> result.confidence,
            method |-> "heuristic"]
      ELSE [sign |-> NoSign, confidence |-> 0, method |-> "none"]

\* classifyASLSign(landmarks, handedness); landmarks.broken: reading a
\* landmark throws inside detectReliableSign, which the try block catches
classifyASLSign(landmarks) ==
  IF landmarks.length # 21
    THEN [sign |-> NoSign, confidence |-> 0, method |-> "none"]
  ELSE IF landmarks.broken
    THEN [sign |-> NoSign, confidence |-> 0, method |-> "error"]
  ELSE LET result == detectReliableSign(landmarks) IN
    IF result.sign # NoSign /\ result.confidence >= 85
      THEN [sign |-> result.sign, confidence |-> result.confidence,
            method |-> "heuristic"]
      ELSE [sign |-> NoSign, confidence |-> 0, method |-> "none"]

\* extractHandFeatures(landmarks): null (here <<>>) unless there are 21
\* landmarks, else the extension state of each finger and their count
extractHandFeatures(landmarks) ==
  IF landmarks.length # 21 THEN <<>>
  ELSE <<[thumbExtended |-> isFingerExtended(landmarks, "thumb"),
          indexExtended |-> isFingerExtended(landmarks, "index"),
          middleExtended |-> isFingerExtended(landmarks, "middle"),
          ringExtended |-> isFingerExtended(landmarks, "ring"),
          pinkyExtended |-> isFingerExtended(landmarks, "pinky"),
          extendedCount |-> extendedCount(landmarks)]>>

\* recognizeSign(features): the branches in source order
recognizeSign(features) ==
  IF features = <<>> THEN [sign |-> NoSign, confidence |-> 0]
  ELSE
  LET extCount == features[1].extendedCount
      thumbExtended == features[1].thumbExtended
      indexExtended == features[1].indexExtended
      middleExtended == features[1].middleExtended
      ringExtended == features[1].ringExtended
      pinkyExtended == features[1].pinkyExtended
  IN
  IF extCount = 0
    THEN [sign |-> "STOP", confidence |-> 85]
  ELSE IF thumbExtended /\ ~indexExtended /\ ~middleExtended
          /\ ~ringExtended /\ ~pinkyExtended
    THEN [sign |-> "YES", confidence |-> 90]
  ELSE IF ~thumbExtended /\ indexExtended /\ ~middleExtended
          /\ ~ringExtended /\ ~pinkyExtended
    THEN [sign |-> "ONE", confidence |-> 85]
  ELSE IF indexExtended /\ middleExtended /\ ~ringExtended /\ ~pinkyExtended
    THEN [sign |-> "PEACE", confidence |-> 85]
  ELSE IF thumbExtended /\ indexExtended /\ middleExtended
          /\ ~ringExtended /\ ~pinkyExtended
    THEN [sign |-> "THREE", confidence |-> 85]
  ELSE IF ~thumbExtended /\ indexExtended /\ middleExtended
          /\ ringExtended /\ pinkyExtended
    THEN [sign |-> "FOUR", confidence |-> 85]
  ELSE IF thumbExtended /\ indexExtended /\ middleExtended
          /\ ringExtended /\ pinkyExtended
    THEN [sign |-> "HELLO", confidence |-> 85]
  ELSE IF extCount = 1 /\ thumbExtended
    THEN [sign |-> "YES", confidence |-> 70]
  ELSE IF extCount >= 5
    THEN [sign |-> "HELLO", confidence |-> 70]
  ELSE [sign |-> NoSign, confidence |-> 0]

\* const GESTURE_TO_SIGN_MAP = {...}: the keys, and the sign of each key
GestureNames == {"Thumb_Up", "Victory", "Open_Palm", "Closed_Fist",
                 "Pointing_Up", "ILoveYou", "Thumb_Down", "Open_Hand"}
GESTURE_TO_SIGN_MAP(gestureName) ==
  CASE gestureName = "Thumb_Up" -> "YES"
    [] gestureName = "Victory" -> "PEACE"
    [] gestureName = "Open_Palm" -> "HELLO"
    [] gestureName = "Closed_Fist" -> "STOP"
    [] gestureName = "Pointing_Up" -> "1"
    [] gestureName = "ILoveYou" -> "LOVE"
    [] gestureName = "Thumb_Down" -> "NO"
    [] gestureName = "Open_Hand" -> "5"

\* mapGestureToSign(gestureName, confidence): null for an unmapped name
mapGestureToSign(gestureName, confidence) ==
  IF gestureName \in GestureNames
    THEN [sign |-> GESTURE_TO_SIGN_MAP(gestureName), confidence |-> confidence]
    ELSE [sign |-> NoSign, confidence |-> 0]

\* processGestureResults(results): results.gestures is a sequence with, per
\* hand, the sequence of its gestures (categoryName, score), best first;
\* the result is null (no sign) unless the top gesture of the first hand maps
\* to a sign with a score above 0.7
processGestureResults(results) ==
  IF Len(results.gestures) = 0 THEN [sign |-> NoSign, confidence |-> 0]
  ELSE IF Len(results.gestures[1]) = 0 THEN [sign |-> NoSign, confidence |-> 0]
  ELSE LET topGesture == results.gestures[1][1]
           signResult == mapGestureToSign(topGesture.categoryName,
                                          topGesture.score)
       IN IF signResult.sign # NoSign /\ signResult.confidence > 70
            THEN signResult
            ELSE [sign |-> NoSign, confidence |-> 0]

\* recognizeGestures(videoElement, timestamp) after its call of
\* initializeGestureRecognizer: recognizer is the module's gestureRecognizer
\* (0: null), video tells whether videoElement is set, and outcome is what
\* recognizeForVideo does (it throws, or it returns gestures, with the
\* landmarks of each hand it found, which stand here as the number of that
\* hand); threw: the promise rejects
recognizeGestures(recognizer, video, outcome) ==
  IF recognizer = 0 \/ ~video
    THEN [gestures |-> <<>>, landmarks |-> <<>>, threw |-> FALSE]
  ELSE IF outcome.throws
    THEN [gestures |-> <<>>, landmarks |-> <<>>, threw |-> FALSE]
  ELSE [gestures |-> outcome.gestures,
        landmarks |-> [g \in 1..Len(outcome.gestures) |->
                         outcome.gestures[g][1].hand],
        threw |-> FALSE]

\* "Allow same sign after 5 seconds"
RepeatAfter == 5000

\* the loop body of onResults for one hand, up to the choice of bestResult:
\* the gesture recognizer first (above 0.7), else the heuristic classifier
\* (0.85 or more); threw: an exception leaves the loop
BestResult(recognizer, outcome, landmarks) ==
  LET gestureResults == recognizeGestures(recognizer, TRUE, outcome)
      gestureSign == processGestureResults(gestureResults)
      aslResult == classifyASLSign(landmarks)
  IN
  IF gestureSign.sign # NoSign /\ gestureSign.confidence > 70
    THEN [sign |-> gestureSign.sign, confidence |-> gestureSign.confidence,
          method |-> "MediaPipe AI", threw |-> FALSE]
  ELSE IF aslResult.method = "threw"
    THEN [sign |-> NoSign, confidence |-> 0, method |-> "", threw |-> TRUE]
  ELSE IF aslResult.sign # NoSign /\ aslResult.confidence >= 85
    THEN [sign |-> aslResult.sign, confidence |-> aslResult.confidence,
          method |-> "Heuristic", threw |-> FALSE]
  ELSE [sign |-> NoSign, confidence |-> 0, method |-> "", threw |-> FALSE]

\* the test before onSignDetected: bestResult with confidence 0.70 or more,
\* and no last sign, or another sign, or more than 5000 ms since
Forwards(bestResult, last, t) ==
  /\ bestResult.sign # NoSign /\ bestResult.confidence >= 70
  /\ IF last = <<>> THEN TRUE
     ELSE IF bestResult.sign # last[1].sign THEN TRUE
     ELSE t - last[1].timestamp > RepeatAfter

\* ---------------------------------------------------------------- Init
BufferInit ==
  /\ now = Epoch
  /\ signBuffer = <<>>
  /\ bufferTimer = NoTimer
  /\ lastSignTime = 0
  /\ timers = {}
  /\ nextTimerId = 1
  /\ inflight = {}
  /\ ret = <<>>
  /\ calls = <<>>
  /\ fires = <<>>
  /\ delivered = <<>>
  /\ accepted = <<>>
  /\ clears = <<>>
  /\ cancelled = {}
  /\ retLive = FALSE
  /\ mutations = 0

\* the classifiers have not been called
ClassifierIdle ==
  /\ hand = <<>>
  /\ classified = <<>>
  /\ recognized = <<>>

\* the callers of initializeGestureRecognizer: the effect that HandTracker
\* runs when it mounts, and the frame handlers (through recognizeGestures)
Mount == 0
Frames == 1..MaxFrames
Callers == {Mount} \cup Frames

\* no recognizer yet, nobody creating one
RecognizerIdle ==
  /\ gestureRecognizer = 0
  /\ isInitializing = FALSE
  /\ created = 0
  /\ pc = [c \in Callers |-> "idle"]
  /\ active = [c \in Callers |-> 0]
  /\ initCalls = <<>>

\* useCallback of Translator: handleSignDetected closes over the
\* handleTranslation of the same render, which closes over user
HandleTranslation(u) == [fn |-> "handleTranslation", user |-> u]

\* Translator and HandTracker have rendered for the first time (user is
\* null) and the effect of HandTracker has run
TrackerMounted ==
  /\ mounted = TRUE
  /\ tracking = FALSE
  /\ lastSignRef = <<>>
  /\ frame = [f \in Frames |-> <<>>]
  /\ user = <<>>
  /\ onSignDetected = HandleTranslation(<<>>)
  /\ seen = <<>>
  /\ handsLeft = 0
  /\ handled = <<>>

\* export const signSmoother = new SignSmoother(): an empty window
SmootherNew ==
  /\ window = <<>>
  /\ stable = <<>>
  /\ passed = <<>>

\* none of the one-shot helpers has been called
HelperIdle ==
  /\ asked = <<>>
  /\ answered = <<>>

Init ==
  /\ BufferInit /\ ClassifierIdle /\ RecognizerIdle /\ TrackerMounted
  /\ SmootherNew /\ HelperIdle

\* ------------------------------------------------------------- actions
\* an addSignToBuffer that restarts the countdown before its duplicate checks
AddRejected_RestartsTimer(signName, callback, useGemini) ==
  /\ Len(calls) < MaxCalls /\ now <= Epoch + MaxTime
  /\ Rejected(signBuffer, signName, now, lastSignTime)
  /\ timers' = SetTimeout(ClearTimeout(timers, bufferTimer), nextTimerId,
                          now, FlushDelay, callback, useGemini)
  /\ bufferTimer' = nextTimerId
  /\ nextTimerId' = nextTimerId + 1
  /\ cancelled' = cancelled \cup Cancels(timers, bufferTimer)
  /\ ret' = ReturnCopy(signBuffer).value
  /\ calls' = Append(calls, [sign |-> signName, t |-> now, acc |-> FALSE])
  /\ UNCHANGED <<now, signBuffer, lastSignTime, inflight, fires, delivered,
                 accepted, clears>>
  /\ retLive' = ReturnCopy(signBuffer).live
  /\ UNCHANGED mutations

\* addSignToBuffer(signName, callback, useGemini) taking an early return
AddRejected(signName, callback, useGemini) ==
  /\ Len(calls) < MaxCalls /\ now <= Epoch + MaxTime
  /\ Rejected(signBuffer, signName, now, lastSignTime)
  /\ ret' = ReturnCopy(signBuffer).value
  /\ calls' = Append(calls, [sign |-> signName, t |-> now, acc |-> FALSE])
  /\ UNCHANGED <<now, signBuffer, bufferTimer, lastSignTime, timers,
                 nextTimerId, inflight, fires, delivered, accepted, clears,
                 cancelled>>
  /\ retLive' = ReturnCopy(signBuffer).live
  /\ UNCHANGED mutations

\* addSignToBuffer whose restarted countdown keeps the callback and mode of
\* the countdown it replaces
AddAccepted_KeepsHandler(signName, callback, useGemini) ==
  /\ Len(calls) < MaxCalls /\ now <= Epoch + MaxTime
  /\ ~Rejected(signBuffer, signName, now, lastSignTime)
  /\ signBuffer' = Append(signBuffer, signName)
  /\ lastSignTime' = now
  /\ LET pending == {tm \in timers : tm.id = bufferTimer} IN
       timers' =
         IF pending = {}
           THEN SetTimeout(timers, nextTimerId, now, FlushDelay, callback,
                           useGemini)
           ELSE LET old == CHOOSE tm \in pending : TRUE IN
                  SetTimeout(ClearTimeout(timers, bufferTimer), nextTimerId,
                             now, FlushDelay, old.callback, old.arg)
  /\ bufferTimer' = nextTimerId
  /\ nextTimerId' = nextTimerId + 1
  /\ ret' = ReturnCopy(signBuffer').value
  /\ calls' = Append(calls, [sign |-> signName, t |-> now, acc |-> TRUE])
  /\ accepted' = Append(accepted, signName)
  /\ cancelled' = cancelled \cup Cancels(timers, bufferTimer)
  /\ UNCHANGED <<now, inflight, fires, delivered, clears>>
  /\ retLive' = ReturnCopy(signBuffer').live
  /\ UNCHANGED mutations

\* addSignToBuffer that adds the sign without recording the time
AddAccepted_StaleTime(signName, callback, useGemini) ==
  /\ Len(calls) < MaxCalls /\ now <= Epoch + MaxTime
  /\ ~Rejected(signBuffer, signName, now, lastSignTime)
  /\ signBuffer' = Append(signBuffer, signName)
  /\ timers' = SetTimeout(ClearTimeout(timers, bufferTimer), nextTimerId,
                          now, FlushDelay, callback, useGemini)
  /\ bufferTimer' = nextTimerId
  /\ nextTimerId' = nextTimerId + 1
  /\ ret' = ReturnCopy(signBuffer').value
  /\ calls' = Append(calls, [sign |-> signName, t |-> now, acc |-> TRUE])
  /\ accepted' = Append(accepted, signName)
  /\ cancelled' = cancelled \cup Cancels(timers, bufferTimer)
  /\ UNCHANGED <<now, lastSignTime, inflight, fires, delivered, clears>>
  /\ retLive' = ReturnCopy(signBuffer').live
  /\ UNCHANGED mutations

\* addSignToBuffer that leaves a pending countdown running (a throttle)
AddAccepted_NoRestart(signName, callback, useGemini) ==
  /\ Len(calls) < MaxCalls /\ now <= Epoch + MaxTime
  /\ ~Rejected(signBuffer, signName, now, lastSignTime)
  /\ signBuffer' = Append(signBuffer, signName)
  /\ lastSignTime' = now
  /\ IF timers # {}
       THEN UNCHANGED <<timers, bufferTimer, nextTimerId, cancelled>>
       ELSE /\ timers' = SetTimeout(timers, nextTimerId, now, FlushDelay,
                                    callback, useGemini)
            /\ bufferTimer' = nextTimerId
            /\ nextTimerId' = nextTimerId + 1
            /\ UNCHANGED cancelled
  /\ ret' = ReturnCopy(signBuffer').value
  /\ calls' = Append(calls, [sign |-> signName, t |-> now, acc |-> TRUE])
  /\ accepted' = Append(accepted, signName)
  /\ UNCHANGED <<now, inflight, fires, delivered, clears>>
  /\ retLive' = ReturnCopy(signBuffer').live
  /\ UNCHANGED mutations

\* addSignToBuffer(signName, callback, useGemini) adding the sign
AddAccepted(signName, callback, useGemini) ==
  /\ Len(calls) < MaxCalls /\ now <= Epoch + MaxTime
  /\ ~Rejected(signBuffer, signName, now, lastSignTime)
  /\ signBuffer' = Append(signBuffer, signName)
  /\ lastSignTime' = now
  /\ timers' = SetTimeout(ClearTimeout(timers, bufferTimer), nextTimerId,
                          now, FlushDelay, callback, useGemini)
  /\ bufferTimer' = nextTimerId
  /\ nextTimerId' = nextTimerId + 1
  /\ ret' = ReturnCopy(signBuffer').value
  /\ calls' = Append(calls, [sign |-> signName, t |-> now, acc |-> TRUE])
  /\ accepted' = Append(accepted, signName)
  /\ cancelled' = cancelled \cup Cancels(timers, bufferTimer)
  /\ UNCHANGED <<now, inflight, fires, delivered, clears>>
  /\ retLive' = ReturnCopy(signBuffer').live
  /\ UNCHANGED mutations

\* a clearSignBuffer that cancels the timer but keeps the tokens
clearSignBuffer_KeepsTokens ==
  /\ Len(clears) < MaxClears /\ now <= Epoch + MaxTime
  /\ timers' = ClearTimeout(timers, bufferTimer)
  /\ accepted' = <<>>
  /\ clears' = Append(clears, [buf |-> signBuffer,
                               calls |-> Len(calls), fires |-> Len(fires)])
  /\ cancelled' = cancelled \cup Cancels(timers, bufferTimer)
  /\ UNCHANGED <<now, signBuffer, bufferTimer, lastSignTime, nextTimerId,
                 inflight, ret, calls, fires, delivered>>
  /\ UNCHANGED <<retLive, mutations>>

\* a clearSignBuffer that also abandons the translations being awaited
clearSignBuffer_DropsInFlight ==
  /\ Len(clears) < MaxClears /\ now <= Epoch + MaxTime
  /\ signBuffer' = <<>>
  /\ timers' = ClearTimeout(timers, bufferTimer)
  /\ inflight' = {}
  /\ accepted' = <<>>
  /\ clears' = Append(clears, [buf |-> signBuffer,
                               calls |-> Len(calls), fires |-> Len(fires)])
  /\ cancelled' = cancelled \cup Cancels(timers, bufferTimer)
  /\ UNCHANGED <<now, bufferTimer, lastSignTime, nextTimerId,
                 ret, calls, fires, delivered>>
  /\ retLive' = FALSE
  /\ UNCHANGED mutations

\* a clearSignBuffer that empties the buffer and leaves the timer running
clearSignBuffer_KeepsTimer ==
  /\ Len(clears) < MaxClears /\ now <= Epoch + MaxTime
  /\ signBuffer' = <<>>
  /\ accepted' = <<>>
  /\ clears' = Append(clears, [buf |-> signBuffer,
                               calls |-> Len(calls), fires |-> Len(fires)])
  /\ UNCHANGED <<now, bufferTimer, lastSignTime, nextTimerId, inflight,
                 ret, calls, fires, delivered, timers, cancelled>>
  /\ retLive' = FALSE
  /\ UNCHANGED mutations

\* clearSignBuffer()
clearSignBuffer ==
  /\ Len(clears) < MaxClears /\ now <= Epoch + MaxTime
  /\ signBuffer' = <<>>
  /\ timers' = ClearTimeout(timers, bufferTimer)
  /\ accepted' = <<>>
  /\ clears' = Append(clears, [buf |-> signBuffer,
                               calls |-> Len(calls), fires |-> Len(fires)])
  /\ cancelled' = cancelled \cup Cancels(timers, bufferTimer)
  /\ UNCHANGED <<now, bufferTimer, lastSignTime, nextTimerId, inflight,
                 ret, calls, fires, delivered>>
  /\ retLive' = FALSE
  /\ UNCHANGED mutations

\* what the history keeps of a timer callback that found a non-empty buffer
FireRecord(tm, fl) ==
  [t |-> now, id |-> tm.id, snapshot |-> fl.signsToTranslate,
   since |-> accepted, after |-> fl.signBuffer, cur |-> bufferTimer,
   callback |-> tm.callback, useGemini |-> tm.useGemini, arg |-> tm.arg,
   calls |-> Len(calls)]

\* timer callback of tm, buffer non-empty: the direct branch
FireDirect(tm) ==
  /\ LET fl == FlushBuffer(signBuffer) IN
       /\ signBuffer' = fl.signBuffer
       /\ fires' = Append(fires, FireRecord(tm, fl))
       /\ delivered' = Append(delivered,
                          [callback |-> tm.callback, fire |-> Len(fires) + 1,
                           via |-> "direct",
                           result |-> DirectResult(fl.signsToTranslate)])
  /\ timers' = timers \ {tm}
  /\ accepted' = <<>>
  /\ UNCHANGED <<now, bufferTimer, lastSignTime, nextTimerId, inflight,
                 ret, calls, clears, cancelled>>
  /\ retLive' = FALSE
  /\ UNCHANGED mutations

\* timer callback of tm, buffer non-empty: the useGemini branch up to its await
FireGemini(tm) ==
  /\ LET fl == FlushBuffer(signBuffer) IN
       /\ signBuffer' = fl.signBuffer
       /\ fires' = Append(fires, FireRecord(tm, fl))
       /\ inflight' = inflight \cup
                        {[fire |-> Len(fires) + 1, signs |-> fl.signsToTranslate,
                          callback |-> tm.callback, attempt |-> 1]}
  /\ timers' = timers \ {tm}
  /\ accepted' = <<>>
  /\ UNCHANGED <<now, bufferTimer, lastSignTime, nextTimerId, delivered,
                 ret, calls, clears, cancelled>>
  /\ retLive' = FALSE
  /\ UNCHANGED mutations

\* timer callback of tm finding the buffer empty: nothing to do
FireEmpty(tm) ==
  /\ timers' = timers \ {tm}
  /\ UNCHANGED <<now, signBuffer, bufferTimer, lastSignTime, nextTimerId,
                 inflight, ret, calls, fires, delivered, accepted, clears,
                 cancelled>>
  /\ UNCHANGED <<retLive, mutations>>

\* the setTimeout callback of timer tm, run by the host when it is due
Fire(tm) ==
  /\ tm \in timers /\ now >= tm.deadline
  /\ IF Len(signBuffer) > 0
       THEN IF tm.useGemini THEN FireGemini(tm) ELSE FireDirect(tm)
       ELSE FireEmpty(tm)

\* a timer callback whose snapshot is the live buffer itself: after the await
\* it holds whatever the buffer holds by then
BackendAnswers_ReadsLive(tr, text) ==
  /\ tr \in inflight
  /\ inflight' = inflight \ {tr}
  /\ delivered' = Append(delivered,
                     [callback |-> tr.callback, fire |-> tr.fire,
                      via |-> "answered",
                      result |-> GeminiResult(signBuffer, Trim(text))])
  /\ UNCHANGED <<now, signBuffer, bufferTimer, lastSignTime, timers,
                 nextTimerId, ret, calls, fires, accepted, clears, cancelled>>
  /\ UNCHANGED <<retLive, mutations>>

\* a timer callback that invokes the callback twice after its await
BackendAnswers_Twice(tr, text) ==
  /\ tr \in inflight
  /\ inflight' = inflight \ {tr}
  /\ LET d == [callback |-> tr.callback, fire |-> tr.fire, via |-> "answered",
               result |-> GeminiResult(tr.signs, Trim(text))]
     IN delivered' = Append(Append(delivered, d), d)
  /\ UNCHANGED <<now, signBuffer, bufferTimer, lastSignTime, timers,
                 nextTimerId, ret, calls, fires, accepted, clears, cancelled>>
  /\ UNCHANGED <<retLive, mutations>>

\* model.generateContent resolved: translateSignSequence returns, the timer
\* callback resumes after its await and invokes the callback
BackendAnswers(tr, text) ==
  /\ tr \in inflight
  /\ inflight' = inflight \ {tr}
  /\ delivered' = Append(delivered,
                     [callback |-> tr.callback, fire |-> tr.fire,
                      via |-> "answered",
                      result |-> GeminiResult(tr.signs, Trim(text))])
  /\ UNCHANGED <<now, signBuffer, bufferTimer, lastSignTime, timers,
                 nextTimerId, ret, calls, fires, accepted, clears, cancelled>>
  /\ UNCHANGED <<retLive, mutations>>

\* a translateSignSequence without its catch: the rejection escapes the timer
\* callback and the callback is never invoked
BackendFails_Throws(tr) ==
  /\ tr \in inflight
  /\ inflight' = inflight \ {tr}
  /\ UNCHANGED <<now, signBuffer, bufferTimer, lastSignTime, timers,
                 nextTimerId, ret, calls, fires, delivered, accepted, clears,
                 cancelled>>
  /\ UNCHANGED <<retLive, mutations>>

\* a translateSignSequence that calls the backend a second time before it
\* falls back
BackendFails_Retries(tr) ==
  /\ tr \in inflight
  /\ IF tr.attempt = 1
       THEN /\ inflight' = (inflight \ {tr}) \cup {[tr EXCEPT !.attempt = 2]}
            /\ UNCHANGED delivered
       ELSE /\ inflight' = inflight \ {tr}
            /\ \E message \in BackendErrors :
                 delivered' = Append(delivered,
                                [callback |-> tr.callback, fire |-> tr.fire,
                                 via |-> "failed",
                                 result |-> FallbackResult(tr.signs, message)])
  /\ UNCHANGED <<now, signBuffer, bufferTimer, lastSignTime, timers,
                 nextTimerId, ret, calls, fires, accepted, clears, cancelled>>
  /\ UNCHANGED <<retLive, mutations>>

\* model.generateContent rejected or threw: the catch block's result
BackendFails(tr) ==
  /\ tr \in inflight
  /\ inflight' = inflight \ {tr}
  /\ \E message \in BackendErrors :
       delivered' = Append(delivered,
                      [callback |-> tr.callback, fire |-> tr.fire,
                       via |-> "failed",
                       result |-> FallbackResult(tr.signs, message)])
  /\ UNCHANGED <<now, signBuffer, bufferTimer, lastSignTime, timers,
                 nextTimerId, ret, calls, fires, accepted, clears, cancelled>>
  /\ UNCHANGED <<retLive, mutations>>

\* the clock moves to one of the environment's instants (ms after Epoch) or
\* to the deadline of a pending timer, never past a pending deadline
Deadlines == {tm.deadline : tm \in timers}
TickOn(points) ==
  /\ \E t \in {Epoch + p : p \in points} \cup Deadlines :
       /\ t > now
       /\ \A d \in Deadlines : t <= d
       /\ now' = t
  /\ UNCHANGED <<signBuffer, bufferTimer, lastSignTime, timers, nextTimerId,
                 inflight, ret, calls, fires, delivered, accepted, clears,
                 cancelled>>
  /\ UNCHANGED <<retLive, mutations>>

Tick == TickOn(TimePoints)

Next ==
  \/ \E s \in Labels, h \in Handlers :
       AddAccepted(s, h.callback, <<h.useGemini>>) /\ UNCHANGED extVars
  \/ \E s \in Labels, h \in Handlers :
       AddRejected(s, h.callback, <<h.useGemini>>) /\ UNCHANGED extVars
  \/ clearSignBuffer /\ UNCHANGED extVars
  \/ \E tm \in timers :
       Fire(tm) /\ UNCHANGED extVars
  \/ \E tr \in inflight, text \in BackendTexts :
       BackendAnswers(tr, text) /\ UNCHANGED extVars
  \/ \E tr \in inflight :
       BackendFails(tr) /\ UNCHANGED extVars
  \/ Tick /\ UNCHANGED extVars

Spec == Init /\ [][Next]_vars

\* the same operations with the callers' labels drawn from the smaller set
BufferNext ==
  \/ \E s \in PauseLabels, h \in Handlers :
       AddAccepted(s, h.callback, <<h.useGemini>>) /\ UNCHANGED extVars
  \/ \E s \in PauseLabels, h \in Handlers :
       AddRejected(s, h.callback, <<h.useGemini>>) /\ UNCHANGED extVars
  \/ clearSignBuffer /\ UNCHANGED extVars
  \/ \E tm \in timers :
       Fire(tm) /\ UNCHANGED extVars
  \/ \E tr \in inflight, text \in BackendTexts :
       BackendAnswers(tr, text) /\ UNCHANGED extVars
  \/ \E tr \in inflight :
       BackendFails(tr) /\ UNCHANGED extVars
  \/ Tick /\ UNCHANGED extVars

BufferSpec == Init /\ [][BufferNext]_vars

\* the same operations with the callers' labels and instants drawn from
\* smaller sets
Pause == TickOn(PauseTimePoints)
PauseNext ==
  \/ \E s \in PauseLabels, h \in Handlers :
       AddAccepted(s, h.callback, <<h.useGemini>>) /\ UNCHANGED extVars
  \/ \E s \in PauseLabels, h \in Handlers :
       AddRejected(s, h.callback, <<h.useGemini>>) /\ UNCHANGED extVars
  \/ clearSignBuffer /\ UNCHANGED extVars
  \/ \E tm \in timers :
       Fire(tm) /\ UNCHANGED extVars
  \/ \E tr \in inflight, text \in BackendTexts :
       BackendAnswers(tr, text) /\ UNCHANGED extVars
  \/ \E tr \in inflight :
       BackendFails(tr) /\ UNCHANGED extVars
  \/ Pause /\ UNCHANGED extVars

\* the caller pushes a label onto the array that the last addSignToBuffer
\* call handed it; it changes the live buffer only if that array is the
\* live buffer object itself
CallerMutates(x) ==
  /\ mutations < MaxMutations /\ calls # <<>>
  /\ ret' = Append(ret, x)
  /\ signBuffer' = IF retLive THEN Append(signBuffer, x) ELSE signBuffer
  /\ mutations' = mutations + 1
  /\ UNCHANGED <<now, bufferTimer, lastSignTime, timers, nextTimerId,
                 inflight, calls, fires, delivered, accepted, clears,
                 cancelled, retLive>>

\* the callbacks of the callers that want the direct mode: they may also
\* leave useGemini out
DirectCallbacks == {h.callback : h \in {x \in Handlers : ~x.useGemini}}

\* the operations, over the smaller input sets, with callers that may omit
\* useGemini and that change the arrays they are handed
ViewNext ==
  \/ \E s \in PauseLabels, h \in Handlers :
       AddAccepted(s, h.callback, <<h.useGemini>>) /\ UNCHANGED extVars
  \/ \E s \in PauseLabels, h \in Handlers :
       AddRejected(s, h.callback, <<h.useGemini>>) /\ UNCHANGED extVars
  \/ \E s \in PauseLabels, c \in DirectCallbacks :
       AddAccepted(s, c, <<>>) /\ UNCHANGED extVars
  \/ \E s \in PauseLabels, c \in DirectCallbacks :
       AddRejected(s, c, <<>>) /\ UNCHANGED extVars
  \/ clearSignBuffer /\ UNCHANGED extVars
  \/ \E tm \in timers :
       Fire(tm) /\ UNCHANGED extVars
  \/ \E tr \in inflight, text \in BackendTexts :
       BackendAnswers(tr, text) /\ UNCHANGED extVars
  \/ \E tr \in inflight :
       BackendFails(tr) /\ UNCHANGED extVars
  \/ \E x \in PauseLabels :
       CallerMutates(x) /\ UNCHANGED extVars
  \/ Pause /\ UNCHANGED extVars

ViewSpec == Init /\ [][ViewNext]_vars

\* the operations with callers whose calls differ in callback and mode; the
\* history keeps what each call was given
HandlerTimePoints == {0, 4000}
\* what the backend answers to these callers
HandlerTexts == {"One, two.\n"}
Given(callback, args) ==
  /\ passed' = Append(passed, [callback |-> callback, arg |-> args])
  /\ UNCHANGED <<classifierVars, recognizerVars, trackerVars, smootherVars,
                 helperVars>>
HandlerNext ==
  \/ \E s \in PauseLabels, h \in Handlers :
       AddAccepted(s, h.callback, <<h.useGemini>>)
         /\ Given(h.callback, <<h.useGemini>>)
  \/ \E s \in PauseLabels, h \in Handlers :
       AddRejected(s, h.callback, <<h.useGemini>>)
         /\ Given(h.callback, <<h.useGemini>>)
  \/ clearSignBuffer /\ UNCHANGED extVars
  \/ \E tm \in timers :
       Fire(tm) /\ UNCHANGED extVars
  \/ \E tr \in inflight, text \in HandlerTexts :
       BackendAnswers(tr, text) /\ UNCHANGED extVars
  \/ \E tr \in inflight :
       BackendFails(tr) /\ UNCHANGED extVars
  \/ TickOn(HandlerTimePoints) /\ UNCHANGED extVars

HandlerSpec == Init /\ [][HandlerNext]_vars

\* -------------------------------------------------- the classifiers alone
\* hands as the classifiers see them: 21 landmarks (or one missing), possibly
\* with an entry that cannot be read; every pattern of extended fingers;
\* lengths in hundredths of the image size, with the wrist at y = 50
Hands ==
  [length : {21, 20}, broken : BOOLEAN,
   tipDist : [Fingers -> {5, 15}], mcpDist : [Fingers -> {10}],
   wristY : {50}, thumbBaseY : {50}, thumbTipY : {30, 50, 70},
   middleTipY : {30, 50}, separation : {5, 12}, angle : {5, 20}]

ClassifierInit ==
  /\ BufferInit /\ RecognizerIdle /\ TrackerMounted /\ SmootherNew
  /\ HelperIdle
  /\ hand \in {<<h>> : h \in Hands}
  /\ classified = <<>>
  /\ recognized = <<>>

\* await classifyASLSign(landmarks, handedness)
Classify ==
  /\ classified = <<>>
  /\ classified' = <<classifyASLSign(hand[1])>>
  /\ UNCHANGED <<hand, recognized>>

\* recognizeSign(extractHandFeatures(hand)); extractHandFeatures throws
\* when one of the 21 landmarks cannot be read
Recognize ==
  /\ recognized = <<>>
  /\ recognized' =
       IF hand[1].length = 21 /\ hand[1].broken
         THEN <<[sign |-> NoSign, confidence |-> 0, threw |-> TRUE]>>
         ELSE LET r == recognizeSign(extractHandFeatures(hand[1])) IN
                <<[sign |-> r.sign, confidence |-> r.confidence,
                   threw |-> FALSE]>>
  /\ UNCHANGED <<hand, classified>>

ClassifierNext ==
  \/ Classify
       /\ UNCHANGED <<vars_buffer, recognizerVars, trackerVars, smootherVars,
                      callerVars, helperVars>>
  \/ Recognize
       /\ UNCHANGED <<vars_buffer, recognizerVars, trackerVars, smootherVars,
                      callerVars, helperVars>>

ClassifierSpec == ClassifierInit /\ [][ClassifierNext]_vars

\* ------------------------------------------- initializeGestureRecognizer
\* the calls that have not returned
Pending == {active[c] : c \in {d \in Callers : active[d] # 0}}

\* the caller's call returns value (0: null)
Returns(c, value) ==
  /\ pc' = [pc EXCEPT ![c] = "returned"]
  /\ initCalls' = [initCalls EXCEPT ![active[c]].value = <<value>>]
  /\ active' = [active EXCEPT ![c] = 0]

\* an initializeGestureRecognizer that starts a creation whenever there is
\* no recognizer, also while another creation is in progress
InitCall_NoFlag(c) ==
  /\ Len(initCalls) < MaxInitCalls
  /\ pc[c] \in {"idle", "returned", "ready"}
  /\ IF gestureRecognizer # 0
       THEN /\ pc' = [pc EXCEPT ![c] = "returned"]
            /\ initCalls' = Append(initCalls,
                 [caller |-> c, peers |-> Pending,
                  value |-> <<gestureRecognizer>>, failed |-> FALSE])
            /\ UNCHANGED <<isInitializing, active>>
       ELSE /\ isInitializing' = TRUE
            /\ pc' = [pc EXCEPT ![c] = "loading"]
            /\ initCalls' = Append(initCalls,
                 [caller |-> c, peers |-> Pending, value |-> <<>>,
                  failed |-> FALSE])
            /\ active' = [active EXCEPT ![c] = Len(initCalls) + 1]
  /\ UNCHANGED <<gestureRecognizer, created>>

\* initializeGestureRecognizer() up to its first await or return: the
\* recognizer if there is one; else the wait loop if a creation is in
\* progress; else isInitializing = true and the load of the vision tasks
InitCall(c) ==
  /\ Len(initCalls) < MaxInitCalls
  /\ pc[c] \in {"idle", "returned", "ready"}
  /\ IF gestureRecognizer # 0
       THEN /\ pc' = [pc EXCEPT ![c] = "returned"]
            /\ initCalls' = Append(initCalls,
                 [caller |-> c, peers |-> Pending,
                  value |-> <<gestureRecognizer>>, failed |-> FALSE])
            /\ UNCHANGED <<isInitializing, active>>
       ELSE /\ isInitializing' = TRUE
            /\ pc' = [pc EXCEPT ![c] =
                        IF isInitializing THEN "polling" ELSE "loading"]
            /\ initCalls' = Append(initCalls,
                 [caller |-> c, peers |-> Pending, value |-> <<>>,
                  failed |-> FALSE])
            /\ active' = [active EXCEPT ![c] = Len(initCalls) + 1]
  /\ UNCHANGED <<gestureRecognizer, created>>

\* await FilesetResolver.forVisionTasks(...) resolves
FilesetResolved(c) ==
  /\ pc[c] = "loading"
  /\ pc' = [pc EXCEPT ![c] = "creating"]
  /\ UNCHANGED <<gestureRecognizer, isInitializing, created, active,
                 initCalls>>

\* a catch block that returns null and leaves isInitializing set
InitFails_KeepsFlag(c) ==
  /\ pc[c] \in {"loading", "creating"}
  /\ pc' = [pc EXCEPT ![c] = "returned"]
  /\ initCalls' = [initCalls EXCEPT ![active[c]].value = <<0>>,
                                    ![active[c]].failed = TRUE]
  /\ active' = [active EXCEPT ![c] = 0]
  /\ UNCHANGED <<gestureRecognizer, created, isInitializing>>

\* one of the two awaits rejects: the catch block clears isInitializing and
\* returns null
InitFails(c) ==
  /\ pc[c] \in {"loading", "creating"}
  /\ isInitializing' = FALSE
  /\ pc' = [pc EXCEPT ![c] = "returned"]
  /\ initCalls' = [initCalls EXCEPT ![active[c]].value = <<0>>,
                                    ![active[c]].failed = TRUE]
  /\ active' = [active EXCEPT ![c] = 0]
  /\ UNCHANGED <<gestureRecognizer, created>>

\* await GestureRecognizer.createFromOptions(...) resolves with a new
\* instance
RecognizerCreated(c) ==
  /\ pc[c] = "creating"
  /\ gestureRecognizer' = created + 1
  /\ created' = created + 1
  /\ isInitializing' = FALSE
  /\ Returns(c, created + 1)

\* the wait loop: the 100 ms timeout has passed and isInitializing is false
WaitEnds(c) ==
  /\ pc[c] = "polling"
  /\ ~isInitializing
  /\ Returns(c, gestureRecognizer)
  /\ UNCHANGED <<gestureRecognizer, isInitializing, created>>

\* concurrent calls of initializeGestureRecognizer by any of its callers
RecognizerNext ==
  \/ \E c \in Callers :
       InitCall(c) /\ UNCHANGED <<vars_buffer, sideVars, trackerVars>>
  \/ \E c \in Callers :
       FilesetResolved(c) /\ UNCHANGED <<vars_buffer, sideVars, trackerVars>>
  \/ \E c \in Callers :
       InitFails(c) /\ UNCHANGED <<vars_buffer, sideVars, trackerVars>>
  \/ \E c \in Callers :
       RecognizerCreated(c) /\ UNCHANGED <<vars_buffer, sideVars, trackerVars>>
  \/ \E c \in Callers :
       WaitEnds(c) /\ UNCHANGED <<vars_buffer, sideVars, trackerVars>>

RecognizerSpec == Init /\ [][RecognizerNext]_vars

\* ------------------------------------------- HandTracker and Translator
\* a hand with 21 readable landmarks, all fingers folded, the thumb level
\* with the wrist
Fist ==
  [length |-> 21, broken |-> FALSE,
   tipDist |-> [f \in Fingers |-> 5], mcpDist |-> [f \in Fingers |-> 10],
   wristY |-> 50, thumbBaseY |-> 50, thumbTipY |-> 50, middleTipY |-> 50,
   separation |-> 5, angle |-> 5]

\* the hands of the frames: a fist (STOP), the index finger alone (1), and
\* a hand one of whose landmarks cannot be read
Poses ==
  {Fist,
   [Fist EXCEPT !.tipDist["index"] = 15],
   [Fist EXCEPT !.broken = TRUE]}

\* results.multiHandLandmarks: no hand, one hand or two (maxNumHands: 2)
FrameHands ==
  {<<>>} \cup {<<p>> : p \in Poses}
    \cup {<<Fist, [Fist EXCEPT !.tipDist["index"] = 15]>>}

\* what recognizeForVideo does with the frame: it throws, or it returns the
\* gestures of the hands it found, each with its score in percent.  The
\* recognizer finds the hands of the image on its own: it may find fewer
\* hands than results.multiHandLandmarks holds, or find them in another
\* order; "hand" tells which entry of results.multiHandLandmarks a gesture
\* is of (the program never reads it)
Recognitions ==
  {[throws |-> TRUE, gestures |-> <<>>],
   [throws |-> FALSE,
    gestures |-> <<(<<[categoryName |-> "Thumb_Up", score |-> 75,
                       hand |-> 1]>>)>>],
   [throws |-> FALSE,
    gestures |-> <<(<<[categoryName |-> "Victory", score |-> 60,
                       hand |-> 1]>>)>>],
   [throws |-> FALSE,
    gestures |-> <<(<<[categoryName |-> "Pointing_Up", score |-> 75,
                       hand |-> 2]>>)>>]}
\* the gestures of outcome are of hands of the frame
GesturesOf(hands, outcome) ==
  \A g \in 1..Len(outcome.gestures) :
    outcome.gestures[g][1].hand <= Len(hands)

\* a frame handler is running: it was just called, or the promise it awaited
\* has settled and it goes on before any other task
Running(f) == pc[f] \in {"ready", "returned"}
Busy == \E f \in Frames : Running(f)

\* initializeHandTracking(): await initializeGestureRecognizer()
StartInit ==
  /\ ~Busy
  /\ pc[Mount] = "idle"
  /\ InitCall(Mount)
  /\ UNCHANGED <<vars_buffer, sideVars, trackerVars>>

\* initializeHandTracking() after the await: hands.onResults(onResults) and
\* camera.start(), whatever initializeGestureRecognizer returned
TrackingStarts ==
  /\ ~Busy
  /\ pc[Mount] = "returned" /\ ~tracking
  /\ tracking' = TRUE
  /\ UNCHANGED <<mounted, lastSignRef, frame, user, onSignDetected, seen,
                 handsLeft, handled>>
  /\ UNCHANGED <<vars_buffer, sideVars, recognizerVars>>

\* onResults(results) up to the loop: the early return once unmounted, the
\* reset of lastSignRef when there is no hand
FrameArrives(f, hands, outcome) ==
  /\ ~Busy /\ tracking
  /\ pc[f] = "idle" /\ \A g \in Frames : g < f => pc[g] # "idle"
  /\ now <= Epoch + MaxTime
  /\ Len(calls) + Len(hands) <= MaxCalls
  /\ hands # <<>> => GesturesOf(hands, outcome)
  /\ gestureRecognizer = 0 => Len(initCalls) + Len(hands) <= MaxInitCalls
  /\ IF ~mounted
       THEN /\ pc' = [pc EXCEPT ![f] = "done"]
            /\ UNCHANGED <<lastSignRef, frame, seen, handsLeft>>
     ELSE IF hands = <<>>
       THEN /\ pc' = [pc EXCEPT ![f] = "done"]
            /\ lastSignRef' = <<>>
            /\ seen' = <<>>
            /\ handsLeft' = Len(calls)
            /\ UNCHANGED frame
     ELSE /\ pc' = [pc EXCEPT ![f] = "ready"]
          /\ frame' = [frame EXCEPT ![f] =
                         <<[hands |-> hands, outcome |-> outcome, i |-> 1]>>]
          /\ UNCHANGED <<lastSignRef, seen, handsLeft>>
  /\ UNCHANGED <<mounted, tracking, user, onSignDetected, handled>>
  /\ UNCHANGED <<gestureRecognizer, isInitializing, created, active,
                 initCalls>>
  /\ UNCHANGED <<vars_buffer, sideVars>>

\* recognizeGestures(...) of a frame handler while there is no recognizer:
\* await initializeGestureRecognizer()
HandlerInit(f) ==
  /\ pc[f] = "ready" /\ gestureRecognizer = 0
  /\ InitCall(f)
  /\ UNCHANGED <<vars_buffer, sideVars, trackerVars>>

\* the hand that the loop of frame handler f is at, and what the loop body
\* finds for it
HandOf(f) == frame[f][1].hands[frame[f][1].i]
BestOf(f) == BestResult(gestureRecognizer, frame[f][1].outcome, HandOf(f))

\* the classifiers that failed on the hand: recognizeForVideo threw, or
\* classifyASLSign was called and reported an error
FailedOn(f) ==
  LET best == BestOf(f) IN
    (IF gestureRecognizer # 0 /\ frame[f][1].outcome.throws
       THEN {"recognizer"} ELSE {})
    \cup
    (IF best.method # "MediaPipe AI"
        /\ classifyASLSign(HandOf(f)).method \in {"error", "threw"}
       THEN {"heuristic"} ELSE {})

\* the loop body has what it needs to run: the recognizer exists, or the
\* call of initializeGestureRecognizer has returned
HandReady(f) ==
  \/ pc[f] = "ready" /\ gestureRecognizer # 0
  \/ pc[f] = "returned"

\* the end of the loop body: an exception ends the handler, else the next
\* hand, else the end of onResults
LoopGoesOn(f) ==
  /\ pc' = [pc EXCEPT ![f] =
              IF BestOf(f).threw THEN "threw"
              ELSE IF frame[f][1].i < Len(frame[f][1].hands) THEN "ready"
              ELSE "done"]
  /\ frame' = [frame EXCEPT ![f] =
                 IF BestOf(f).threw \/ frame[f][1].i >= Len(frame[f][1].hands)
                   THEN <<>>
                   ELSE <<[frame[f][1] EXCEPT !.i = @ + 1]>>]
  /\ UNCHANGED <<gestureRecognizer, isInitializing, created, active,
                 initCalls>>

\* the history entry of one pass of the loop body; from: the hand whose
\* gesture or landmarks gave the sign
SeenHand(f, forwarded) ==
  <<[hands |-> Len(frame[f][1].hands), i |-> frame[f][1].i,
     recognizer |-> gestureRecognizer,
     gestureResults |->
       recognizeGestures(gestureRecognizer, TRUE, frame[f][1].outcome),
     from |-> IF BestOf(f).method = "MediaPipe AI"
                THEN frame[f][1].outcome.gestures[1][1].hand
                ELSE frame[f][1].i,
     sign |-> BestOf(f).sign, confidence |-> BestOf(f).confidence,
     method |-> BestOf(f).method, forwarded |-> forwarded, live |-> mounted,
     failed |-> FailedOn(f), threw |-> BestOf(f).threw]>>

\* the loop body for a hand that is not forwarded
HandSkipped(f) ==
  /\ HandReady(f)
  /\ ~Forwards(BestOf(f), lastSignRef, now)
  /\ seen' = SeenHand(f, FALSE)
  /\ LoopGoesOn(f)
  /\ UNCHANGED <<mounted, tracking, lastSignRef, user, onSignDetected,
                 handsLeft, handled>>
  /\ UNCHANGED <<vars_buffer, sideVars>>

\* the loop body for a hand that is forwarded: lastSignRef.current is set
\* and onSignDetected (handleSignDetected) calls addSignToBuffer(sign,
\* handleTranslation, false)
HandForwarded(f) ==
  /\ HandReady(f)
  /\ Forwards(BestOf(f), lastSignRef, now)
  /\ lastSignRef' = <<[sign |-> BestOf(f).sign, timestamp |-> now]>>
  /\ seen' = SeenHand(f, TRUE)
  /\ LoopGoesOn(f)
  /\ UNCHANGED <<mounted, tracking, user, onSignDetected, handsLeft, handled>>
  /\ UNCHANGED sideVars

\* ... whether addSignToBuffer adds the sign or returns early
Forward(f) ==
  /\ HandForwarded(f)
  /\ \/ AddAccepted(BestOf(f).sign, onSignDetected, <<FALSE>>)
     \/ AddRejected(BestOf(f).sign, onSignDetected, <<FALSE>>)

\* the cleanups of the unmount: clearSignBuffer() (Translator) and
\* mounted = false (HandTracker)
Unmount ==
  /\ ~Busy /\ mounted
  /\ clearSignBuffer
  /\ mounted' = FALSE
  /\ UNCHANGED <<tracking, lastSignRef, frame, user, onSignDetected, seen,
                 handsLeft, handled>>
  /\ UNCHANGED <<sideVars, recognizerVars>>

\* the users that may sign in
Users == {"uid1"}

\* onAuthChange reports a signed-in user: setUser(currentUser); Translator
\* renders again, the effect of HandTracker does not run again
SignIn(u) ==
  /\ ~Busy /\ mounted /\ user = <<>>
  /\ user' = <<u>>
  /\ UNCHANGED <<mounted, tracking, lastSignRef, frame, onSignDetected, seen,
                 handsLeft, handled>>
  /\ UNCHANGED <<vars_buffer, sideVars, recognizerVars>>

\* handleTranslation(result) of the render whose user is callback.user: a
\* successful result is shown, and saved if that user is not null
handleTranslation(callback, result) ==
  [user |-> user, live |-> mounted,
   shown |-> DisplayedText(result),
   saved |-> IF result.success /\ callback.user # <<>>
               THEN <<[uid |-> callback.user[1],
                       signs |-> result.originalSigns,
                       translation |-> result.translation,
                       method |-> result.method]>>
               ELSE <<>>]

\* the flush timer fires and the callback, handleTranslation, runs
TimerFires(tm) ==
  /\ ~Busy
  /\ Fire(tm)
  /\ handled' =
       IF Len(delivered') > Len(delivered)
         THEN LET d == delivered'[Len(delivered')] IN
                Append(handled, handleTranslation(d.callback, d.result))
         ELSE handled
  /\ UNCHANGED <<mounted, tracking, lastSignRef, frame, user, onSignDetected,
                 seen, handsLeft>>
  /\ UNCHANGED <<sideVars, recognizerVars>>

\* HandTracker from its mount, with a recognizer whose creation succeeds:
\* frames of every kind are handled and their signs go to the buffer
TrackerNext ==
  \/ StartInit
  \/ \E c \in Callers :
       /\ ~Busy
       /\ FilesetResolved(c)
       /\ UNCHANGED <<vars_buffer, sideVars, trackerVars>>
  \/ \E c \in Callers :
       /\ ~Busy
       /\ RecognizerCreated(c)
       /\ UNCHANGED <<vars_buffer, sideVars, trackerVars>>
  \/ TrackingStarts
  \/ \E f \in Frames, hands \in FrameHands, outcome \in Recognitions :
       FrameArrives(f, hands, outcome)
  \/ \E f \in Frames : HandSkipped(f)
  \/ \E f \in Frames : Forward(f)
  \/ \E tm \in timers : TimerFires(tm)
  \/ ~Busy /\ Pause /\ UNCHANGED extVars

TrackerSpec == Init /\ [][TrackerNext]_vars

\* the frames of a session: one hand showing the index finger, which the
\* recognizer, if there is one, takes for Thumb_Up
SessionHands == {<<[Fist EXCEPT !.tipDist["index"] = 15]>>}
SessionRecognitions ==
  {[throws |-> FALSE,
    gestures |-> <<(<<[categoryName |-> "Thumb_Up", score |-> 75,
                       hand |-> 1]>>)>>]}

\* Translator from its mount to its unmount: the creation of the recognizer
\* may fail, frames are handled, the user may sign in
SessionNext ==
  \/ StartInit
  \/ \E c \in Callers :
       /\ ~Busy
       /\ FilesetResolved(c)
       /\ UNCHANGED <<vars_buffer, sideVars, trackerVars>>
  \/ \E c \in Callers :
       /\ ~Busy
       /\ InitFails(c)
       /\ UNCHANGED <<vars_buffer, sideVars, trackerVars>>
  \/ \E c \in Callers :
       /\ ~Busy
       /\ RecognizerCreated(c)
       /\ UNCHANGED <<vars_buffer, sideVars, trackerVars>>
  \/ \E c \in Callers :
       /\ ~Busy
       /\ WaitEnds(c)
       /\ UNCHANGED <<vars_buffer, sideVars, trackerVars>>
  \/ TrackingStarts
  \/ \E f \in Frames, hands \in SessionHands,
          outcome \in SessionRecognitions :
       FrameArrives(f, hands, outcome)
  \/ \E f \in Frames : HandlerInit(f)
  \/ \E f \in Frames : HandSkipped(f)
  \/ \E f \in Frames : Forward(f)
  \/ Unmount
  \/ \E u \in Users : SignIn(u)
  \/ \E tm \in timers : TimerFires(tm)
  \/ ~Busy /\ Pause /\ UNCHANGED extVars

SessionSpec == Init /\ [][SessionNext]_vars

\* ------------------------------------------------------- SignSmoother
\* constructor(windowSize = 3, threshold = 0.4); the threshold in tenths
windowSize == 3
thresholdTenths == 4
\* "Remove old signs (> 2 seconds)"
MaxAge == 2000
\* "item.confidence > 0.5", confidences being in hundredths
MinCounted == 50

\* addSign(sign, confidence) at Date.now() = t: push, shift when the window
\* is longer than windowSize, then keep the entries younger than 2000 ms
addSign(w, sign, confidence, t) ==
  LET pushed == Append(w, [sign |-> sign, confidence |-> confidence,
                           timestamp |-> t])
      shifted == IF Len(pushed) > windowSize THEN Tail(pushed) ELSE pushed
  IN SelectSeq(shifted, LAMBDA item : t - item.timestamp < MaxAge)

\* the entries the forEach of getStableSign counts ('null' is falsy)
Counted(item) == item.sign # NoSign /\ item.confidence > MinCounted

\* signCounts[sign] after the forEach over the window
signCounts(w, sign) ==
  Cardinality({i \in 1..Len(w) : Counted(w[i]) /\ w[i].sign = sign})

\* the keys of signCounts in the order Object.entries gives them: the order
\* in which the forEach created them (no key here is an integer index)
RECURSIVE CountedKeys(_)
CountedKeys(w) ==
  IF w = <<>> THEN <<>>
  ELSE LET front == CountedKeys(SubSeq(w, 1, Len(w) - 1))
           item == w[Len(w)]
       IN IF Counted(item) /\ \A k \in 1..Len(front) : front[k] # item.sign
            THEN Append(front, item.sign)
            ELSE front

\* the forEach over Object.entries(signCounts): best is <<bestSign, bestCount>>
RECURSIVE MostCommon(_, _, _)
MostCommon(w, keys, best) ==
  IF keys = <<>> THEN best
  ELSE LET count == signCounts(w, Head(keys)) IN
         MostCommon(w, Tail(keys),
                    IF count > best[2]
                       /\ count * 10 >= windowSize * thresholdTenths
                      THEN <<Head(keys), count>>
                      ELSE best)

\* a getStableSign that takes a single matching entry for a stable sign
getStableSign_AnyCount(w) ==
  LET keys == CountedKeys(w) IN
    IF keys = <<>>
      THEN [sign |-> NoSign, confidence |-> [num |-> 0, den |-> 1]]
      ELSE [sign |-> keys[1],
            confidence |-> [num |-> signCounts(w, keys[1]),
                            den |-> windowSize]]

\* getStableSign(): the confidence bestCount / windowSize is kept as a
\* fraction, 0 as 0/1
getStableSign(w) ==
  IF Len(w) = 0
    THEN [sign |-> NoSign, confidence |-> [num |-> 0, den |-> 1]]
    ELSE LET best == MostCommon(w, CountedKeys(w), <<NoSign, 0>>) IN
           [sign |-> best[1],
            confidence |-> IF best[1] # NoSign
                             THEN [num |-> best[2], den |-> windowSize]
                             ELSE [num |-> 0, den |-> 1]]

\* what callers hand to addSign: a recognizeSign result (sign null with
\* confidence 0 when nothing matched) or a sign at the edge of 0.5
Detections ==
  {[sign |-> NoSign, confidence |-> 0]} \cup
  [sign : {"YES", "HELLO"}, confidence : {50, 90}]
\* the instants (ms after Epoch) at which the smoother is used
SmootherTimePoints == {0, 1000, 2000, 3000}

\* signSmoother.addSign(d.sign, d.confidence)
AddSign(d) ==
  /\ window' = addSign(window, d.sign, d.confidence, now)
  /\ stable' = <<>>
  /\ UNCHANGED <<vars_buffer, classifierVars, recognizerVars, trackerVars,
                 callerVars, helperVars>>

\* signSmoother.getStableSign()
GetStableSign ==
  /\ stable = <<>>
  /\ stable' = <<getStableSign(window)>>
  /\ UNCHANGED <<window, vars_buffer, classifierVars, recognizerVars,
                 trackerVars, callerVars, helperVars>>

\* signSmoother.reset()
Reset ==
  /\ window # <<>>
  /\ window' = <<>>
  /\ stable' = <<>>
  /\ UNCHANGED <<vars_buffer, classifierVars, recognizerVars, trackerVars,
                 callerVars, helperVars>>

\* time passes between two uses of the smoother
TimePasses ==
  /\ \E p \in SmootherTimePoints : Epoch + p > now /\ now' = Epoch + p
  /\ stable' = <<>>
  /\ UNCHANGED <<signBuffer, bufferTimer, lastSignTime, timers, nextTimerId,
                 inflight, ret, calls, fires, delivered, accepted, clears,
                 cancelled, retLive, mutations>>
  /\ UNCHANGED <<window, classifierVars, recognizerVars, trackerVars,
                 callerVars, helperVars>>

SmootherNext ==
  \/ \E d \in Detections : AddSign(d)
  \/ GetStableSign
  \/ Reset
  \/ TimePasses

SmootherSpec == Init /\ [][SmootherNext]_vars

\* ------------- analyzeGestureImage, getSignExplanation, textToSignGuidance
LowerCase == "abcdefghijklmnopqrstuvwxyz"
UpperCase == "ABCDEFGHIJKLMNOPQRSTUVWXYZ"
Digits == "0123456789"
Chars(text) == {SubSeq(text, i, i) : i \in 1..Len(text)}
\* the class \w of a regular expression
WordChars == Chars(LowerCase) \cup Chars(UpperCase) \cup Chars(Digits) \cup {"_"}

\* String.prototype.toUpperCase(), one character
UpperOf(c) ==
  IF c \in Chars(LowerCase)
    THEN LET i == CHOOSE k \in 1..Len(LowerCase) : SubSeq(LowerCase, k, k) = c
         IN SubSeq(UpperCase, i, i)
    ELSE c

\* String.prototype.toUpperCase()
RECURSIVE toUpperCase(_)
toUpperCase(text) ==
  IF Len(text) = 0 THEN text
  ELSE UpperOf(SubSeq(text, 1, 1)) \o toUpperCase(SubSeq(text, 2, Len(text)))

\* text.replace(/[^\w\s]/g, ''): "Remove punctuation"
RECURSIVE RemovePunctuation(_)
RemovePunctuation(text) ==
  IF Len(text) = 0 THEN text
  ELSE LET c == SubSeq(text, 1, 1) IN
         (IF c \in WordChars \cup Whitespace THEN c ELSE "")
           \o RemovePunctuation(SubSeq(text, 2, Len(text)))

\* the first position of text that holds a character of seps (0: none), and
\* the last position of the run of such characters that starts at position i
FirstOf(text, seps) ==
  LET at == {i \in 1..Len(text) : SubSeq(text, i, i) \in seps} IN
    IF at = {} THEN 0 ELSE CHOOSE i \in at : \A j \in at : i <= j
RunEnd(text, i, seps) ==
  CHOOSE j \in i..Len(text) :
    /\ \A k \in i..j : SubSeq(text, k, k) \in seps
    /\ j = Len(text) \/ SubSeq(text, j + 1, j + 1) \notin seps

\* text.split(/\s+/): a run of whitespace separates two tokens, so a text
\* that starts or ends with whitespace gives an empty first or last token
RECURSIVE SplitSpaces(_)
SplitSpaces(text) ==
  LET i == FirstOf(text, Whitespace) IN
    IF i = 0 THEN <<text>>
    ELSE <<SubSeq(text, 1, i - 1)>>
           \o SplitSpaces(SubSeq(text, RunEnd(text, i, Whitespace) + 1,
                                 Len(text)))

\* text.split(','): every comma separates two tokens
RECURSIVE SplitCommas(_)
SplitCommas(text) ==
  LET i == FirstOf(text, {","}) IN
    IF i = 0 THEN <<text>>
    ELSE <<SubSeq(text, 1, i - 1)>>
           \o SplitCommas(SubSeq(text, i + 1, Len(text)))

\* a word list that keeps the empty tokens of the split
FallbackSigns_NoFilter(text) ==
  SplitSpaces(RemovePunctuation(toUpperCase(text)))

\* "Fallback: Simple word-based conversion": upper case, punctuation
\* removed, split at whitespace, empty words dropped
FallbackSigns(text) ==
  SelectSeq(SplitSpaces(RemovePunctuation(toUpperCase(text))),
            LAMBDA word : Len(word) > 0)

\* what generateContent does: it answers with a text, or it fails with an
\* Error (rejects), of which the catch blocks read the message
HelperOutcomes ==
  [ok : {TRUE}, text : {"hello\n", "Unknown", " i, happy ,"}, message : {""}]
  \cup [ok : {FALSE}, text : {""}, message : BackendErrors]

\* analyzeGestureImage(imageData); isString: imageData.split exists (if
\* not, the try block throws a TypeError before the backend is called)
analyzeGestureImage(isString, outcome) ==
  IF ~isString
    THEN [success |-> FALSE, signName |-> "UNKNOWN", confidence |-> 0,
          error |-> "imageData.split is not a function", rejected |-> FALSE]
  ELSE IF ~outcome.ok
    THEN [success |-> FALSE, signName |-> "UNKNOWN", confidence |-> 0,
          error |-> outcome.message, rejected |-> FALSE]
  ELSE LET signName == toUpperCase(Trim(outcome.text)) IN
         [success |-> TRUE, signName |-> signName,
          confidence |-> IF signName # "UNKNOWN" THEN 75 ELSE 10,
          method |-> "gemini-vision", rejected |-> FALSE]

\* getSignExplanation(signName)
getSignExplanation(signName, outcome) ==
  IF ~outcome.ok
    THEN [success |-> FALSE, explanation |-> "Explanation unavailable",
          error |-> outcome.message, rejected |-> FALSE]
    ELSE [success |-> TRUE, explanation |-> Trim(outcome.text),
          rejected |-> FALSE]

\* the words of response.text().trim().split(','), each trimmed and in
\* upper case
RECURSIVE TrimmedUpper(_)
TrimmedUpper(words) ==
  IF words = <<>> THEN <<>>
  ELSE <<toUpperCase(Trim(Head(words)))>> \o TrimmedUpper(Tail(words))

\* textToSignGuidance(text); apiKey: VITE_GEMINI_API_KEY ("": not set)
textToSignGuidance(text, apiKey, outcome) ==
  IF apiKey = "" \/ apiKey = "demo"
    THEN [success |-> TRUE, signs |-> FallbackSigns(text),
          originalText |-> text, method |-> "fallback", rejected |-> FALSE]
  ELSE IF ~outcome.ok
    THEN [success |-> TRUE, signs |-> FallbackSigns(text),
          originalText |-> text, method |-> "fallback-error",
          rejected |-> FALSE]
  ELSE [success |-> TRUE,
        signs |-> TrimmedUpper(SplitCommas(Trim(outcome.text))),
        originalText |-> text, method |-> "gemini", rejected |-> FALSE]

\* the calls of the helpers: which function, its argument, the API key of
\* the build and what the backend does
GuidanceTexts == {"", " ", "hi", "Hi, i!", " what is  your_name? ", "?!"}
ApiKeys == {"", "demo", "key1"}
HelperCalls ==
  [fn : {"analyzeGestureImage"}, isString : BOOLEAN, text : {""},
   apiKey : {"key1"}, outcome : HelperOutcomes]
  \cup [fn : {"getSignExplanation"}, isString : {TRUE}, text : {"HELLO"},
        apiKey : {"key1"}, outcome : HelperOutcomes]
  \cup [fn : {"textToSignGuidance"}, isString : {TRUE}, text : GuidanceTexts,
        apiKey : ApiKeys, outcome : HelperOutcomes]

\* one of the helpers is called
HelperInit ==
  /\ BufferInit /\ ClassifierIdle /\ RecognizerIdle /\ TrackerMounted
  /\ SmootherNew
  /\ asked \in {<<c>> : c \in HelperCalls}
  /\ answered = <<>>

\* the promise of analyzeGestureImage settles
Analyzed ==
  /\ answered = <<>> /\ asked[1].fn = "analyzeGestureImage"
  /\ answered' = <<analyzeGestureImage(asked[1].isString, asked[1].outcome)>>
  /\ UNCHANGED <<asked, vars_buffer, classifierVars, recognizerVars,
                 trackerVars, smootherVars, callerVars>>

\* the promise of getSignExplanation settles
Explained ==
  /\ answered = <<>> /\ asked[1].fn = "getSignExplanation"
  /\ answered' = <<getSignExplanation(asked[1].text, asked[1].outcome)>>
  /\ UNCHANGED <<asked, vars_buffer, classifierVars, recognizerVars,
                 trackerVars, smootherVars, callerVars>>

\* the promise of textToSignGuidance settles
Guided ==
  /\ answered = <<>> /\ asked[1].fn = "textToSignGuidance"
  /\ answered' = <<textToSignGuidance(asked[1].text, asked[1].apiKey,
                                      asked[1].outcome)>>
  /\ UNCHANGED <<asked, vars_buffer, classifierVars, recognizerVars,
                 trackerVars, smootherVars, callerVars>>

HelperNext ==
  \/ Analyzed
  \/ Explained
  \/ Guided

HelperSpec == HelperInit /\ [][HelperNext]_vars

\* the timer callbacks run when due, the clock advances, and every backend
\* request settles (resolves or rejects)
FairSpec ==
  /\ Init /\ [][PauseNext]_vars
  /\ WF_vars(Pause /\ UNCHANGED extVars)
  /\ WF_vars(\E tm \in timers : Fire(tm) /\ UNCHANGED extVars)
  /\ WF_vars(\E tr \in inflight :
               (BackendFails(tr) \/
                  \E text \in BackendTexts : BackendAnswers(tr, text))
               /\ UNCHANGED extVars)

TypeOK ==
  /\ signBuffer \in Seq(Labels)
  /\ Cardinality(timers) <= MaxCalls

\* ------------------------------------------------------------- claims

\* C1: every timer fire on a non-empty buffer hands dispatch exactly the
\* labels accepted by addSignToBuffer since the previous flush or clear, in
\* acceptance order, and getSignBuffer() is empty right after the fire,
\* before any translation completes.
C1_AtomicFlush ==
  /\ \A i \in 1..Len(fires) :
       /\ fires[i].snapshot # <<>>
       /\ fires[i].snapshot = fires[i].since
       /\ fires[i].after = <<>>
  /\ \A tr \in inflight : tr.signs = fires[tr.fire].since
  /\ \A k \in 1..Len(delivered) :
       delivered[k].result.originalSigns = fires[delivered[k].fire].since

\* a second flush, after a first flush of two tokens
C1_Witness ==
  /\ Len(fires) >= 2
  /\ Len(fires[1].snapshot) >= 2
  /\ fires[2].snapshot # <<>>

\* C2: in every reachable state the sign buffer holds no two adjacent
\* identical tokens, whatever the timestamps of the calls.
C2_NoAdjacentDuplicate ==
  \A i \in 1..(Len(signBuffer) - 1) : signBuffer[i] # signBuffer[i + 1]

\* the label at the end of a two-token buffer is offered again after the
\* 3000 ms window has elapsed, and is rejected
C2_Witness ==
  /\ Len(signBuffer) = 2 /\ Len(calls) = 3
  /\ calls[2].acc /\ ~calls[3].acc
  /\ calls[3].sign = signBuffer[2]
  /\ calls[3].t >= calls[2].t + RejectWindow

\* the time of the last accepted call (0 when there is none)
LastAcceptTime ==
  LET idx == {i \in 1..Len(calls) : calls[i].acc} IN
    IF idx = {} THEN 0
    ELSE calls[CHOOSE i \in idx : \A j \in idx : j <= i].t

\* every call so far was accepted, each d ms after the previous one, and
\* clearSignBuffer was never called
AllAcceptedSpaced(d) ==
  /\ calls # <<>> /\ clears = <<>>
  /\ \A i \in 1..Len(calls) : calls[i].acc
  /\ \A i \in 1..(Len(calls) - 1) : calls[i + 1].t = calls[i].t + d

\* C3: every accepted addSignToBuffer call restarts the 4000 ms countdown
\* (a pending timer always expires 4000 ms after the latest acceptance); for
\* N accepted tokens 2000 ms apart no flush happens before the last token and
\* exactly one flush happens, 4000 ms after the last acceptance, with all N
\* tokens in its snapshot.
C3_DebounceRestart ==
  /\ \A tm \in timers : tm.deadline = LastAcceptTime + FlushDelay
  /\ AllAcceptedSpaced(2000) =>
       /\ Len(fires) <= 1
       /\ \A i \in 1..Len(fires) :
            /\ fires[i].t = calls[Len(calls)].t + FlushDelay
            /\ fires[i].snapshot = [k \in 1..Len(calls) |-> calls[k].sign]
       /\ timers = {} => Len(fires) = 1

\* three tokens 2000 ms apart have been flushed together
C3_Witness ==
  /\ AllAcceptedSpaced(2000)
  /\ Len(calls) = 3
  /\ Len(fires) = 1 /\ Len(fires[1].snapshot) = 3

\* C4: at most one flush timer is pending at any moment; it is the one
\* scheduled by the latest accepted call; a timer that an accepted call
\* superseded or that clearSignBuffer cancelled is no longer pending and
\* never fires.
C4_SingleTimer ==
  /\ Cardinality(timers) <= 1
  /\ \A tm \in timers : tm.id = bufferTimer /\ tm.id \notin cancelled
  /\ \A i \in 1..Len(fires) :
       fires[i].id = fires[i].cur /\ fires[i].id \notin cancelled

\* one timer was superseded by an accepted call, another was cancelled by
\* clearSignBuffer, and a later timer has fired
C4_Witness ==
  /\ Cardinality(cancelled) >= 2
  /\ clears # <<>> /\ clears[1].buf # <<>>
  /\ fires # <<>>

\* the labels of the accepted calls among calls[from + 1 .. Len(calls)]
RECURSIVE AcceptedFrom(_)
AcceptedFrom(from) ==
  IF from >= Len(calls) THEN <<>>
  ELSE (IF calls[from + 1].acc THEN <<calls[from + 1].sign>> ELSE <<>>)
         \o AcceptedFrom(from + 1)

\* the snapshots of fires[from + 1 .. Len(fires)], one after the other
RECURSIVE FlushedFrom(_)
FlushedFrom(from) ==
  IF from >= Len(fires) THEN <<>>
  ELSE fires[from + 1].snapshot \o FlushedFrom(from + 1)

\* the number of tokens that clearSignBuffer calls threw away
RECURSIVE ClearedCount(_)
ClearedCount(k) ==
  IF k = 0 THEN 0 ELSE Len(clears[k].buf) + ClearedCount(k - 1)

\* C5: after clearSignBuffer the buffer is empty and no timer is pending
\* until a token is accepted again, and the tokens that were in the buffer at
\* the clear are never flushed: what is flushed or buffered after the clear
\* is exactly what was accepted after it, and every accepted token is either
\* flushed, buffered or cleared.
C5_ClearIsSilent ==
  /\ clears # <<>> =>
       LET c == clears[Len(clears)] IN
         /\ AcceptedFrom(c.calls) = <<>> =>
              signBuffer = <<>> /\ timers = {} /\ Len(fires) = c.fires
         /\ FlushedFrom(c.fires) \o signBuffer = AcceptedFrom(c.calls)
  /\ Len(AcceptedFrom(0)) =
       Len(FlushedFrom(0)) + Len(signBuffer) + ClearedCount(Len(clears))

\* a non-empty buffer was cleared and a later generation has been flushed
C5_Witness ==
  /\ clears # <<>> /\ clears[1].buf # <<>>
  /\ Len(fires) > clears[1].fires

\* the fires of timer id
FiresOf(id) == {i \in 1..Len(fires) : fires[i].id = id}

\* timer id fired exactly once and the callback was invoked with a result
\* for the buffer it flushed
FlushedAndDelivered(id) ==
  /\ Cardinality(FiresOf(id)) = 1
  /\ \E i \in FiresOf(id) : \E k \in 1..Len(delivered) :
       /\ delivered[k].fire = i
       /\ delivered[k].result.originalSigns = fires[i].snapshot

\* C6: when a token is accepted (its call schedules timer id) and neither a
\* further acceptance nor clearSignBuffer cancels that timer during its
\* 4000 ms, the timer fires exactly once and the callback is eventually
\* invoked with a result for that buffer.
C6_PauseTriggersDispatch ==
  \A id \in 1..MaxCalls :
    (nextTimerId > id) ~> (id \in cancelled \/ FlushedAndDelivered(id))

\* a single token was accepted, nothing else happened for 4000 ms, and the
\* callback got the result of the flush
C6_Witness ==
  /\ Len(calls) = 1 /\ calls[1].acc /\ clears = <<>>
  /\ Len(fires) = 1 /\ fires[1].t = calls[1].t + FlushDelay
  /\ FlushedAndDelivered(1)

\* calls i < j carry the same label, less than RejectWindow apart, the first
\* was accepted and no other label was accepted between them
SameLabelPair(i, j) ==
  /\ i < j
  /\ calls[i].sign = calls[j].sign
  /\ calls[j].t - calls[i].t < RejectWindow
  /\ calls[i].acc
  /\ \A k \in (i + 1)..(j - 1) : ~(calls[k].acc /\ calls[k].sign # calls[i].sign)

\* clearSignBuffer was called after call i and before call j
ClearBetween(i, j) ==
  \E c \in 1..Len(clears) : i <= clears[c].calls /\ clears[c].calls < j

\* C7 as stated: of two calls with the same label less than 3000 ms apart,
\* with no other label accepted between them, only the first is accepted,
\* whatever happens between them (rejected calls, clearSignBuffer).
C7_RejectWindow_Original ==
  \A i, j \in 1..Len(calls) : SameLabelPair(i, j) => ~calls[j].acc

\* C7 (amended): of two calls with the same label less than 3000 ms apart,
\* with no other label accepted and no clearSignBuffer call between them,
\* only the first is accepted, whatever rejected calls occur between them.
C7_RejectWindow ==
  \A i, j \in 1..Len(calls) :
    (SameLabelPair(i, j) /\ ~ClearBetween(i, j)) => ~calls[j].acc

\* a label is accepted, rejected, and rejected again within the window
C7_Witness ==
  /\ Len(calls) = 3
  /\ SameLabelPair(1, 3) /\ ~ClearBetween(1, 3)
  /\ ~calls[2].acc /\ ~calls[3].acc

\* calls i < j are two acceptances of the same label
SameLabelAccepts(i, j) ==
  i < j /\ calls[i].acc /\ calls[j].acc /\ calls[i].sign = calls[j].sign

\* a different label was accepted between calls i and j
OtherAcceptedBetween(i, j) ==
  \E k \in (i + 1)..(j - 1) : calls[k].acc /\ calls[k].sign # calls[i].sign

\* C8 as stated: any two acceptances of the same label are at least 3000 ms
\* apart, also when other labels are accepted in between.
C8_PerLabelInterval_Original ==
  \A i, j \in 1..Len(calls) :
    SameLabelAccepts(i, j) => calls[j].t - calls[i].t >= RejectWindow

\* C8 (amended): the filter keeps one last-accept time, that of the latest
\* acceptance of any label; two acceptances of the same label with neither
\* another label's acceptance nor a clearSignBuffer call between them are at
\* least 3000 ms apart.
C8_PerLabelInterval ==
  /\ lastSignTime = LastAcceptTime
  /\ \A i, j \in 1..Len(calls) :
       (SameLabelAccepts(i, j) /\ ~OtherAcceptedBetween(i, j)
          /\ ~ClearBetween(i, j))
         => calls[j].t - calls[i].t >= RejectWindow

\* the same label is accepted twice in a row, a flush apart
C8_Witness ==
  /\ Len(calls) >= 2
  /\ SameLabelAccepts(1, 2) /\ ~ClearBetween(1, 2)
  /\ lastSignTime = calls[2].t

\* the step is an addSignToBuffer call that was rejected
RejectedCallStep ==
  /\ Len(calls') = Len(calls) + 1
  /\ ~calls'[Len(calls')].acc

\* exactly the calls STOP at t = 0 and STOP at t = 3999, and no clear
StopScenario ==
  /\ Len(calls) = 2 /\ clears = <<>>
  /\ calls[1].sign = "STOP" /\ calls[1].t = Epoch
  /\ calls[2].sign = "STOP" /\ calls[2].t = Epoch + 3999

\* what the STOP scenario leads to
StopScenarioOutcome ==
  /\ calls[1].acc /\ ~calls[2].acc
  /\ Len(fires) <= 1
  /\ \A i \in 1..Len(fires) :
       fires[i].t = Epoch + 4000 /\ fires[i].snapshot = <<"STOP">>
  /\ timers = {} => Len(fires) = 1

\* C9: a rejected addSignToBuffer call changes neither the buffer nor the
\* pending timer (and its deadline) nor the last-accept time, and returns
\* the unchanged buffer; STOP accepted at t = 0 and offered again at
\* t = 3999 is still flushed as <<STOP>> at t = 4000.
C9_RejectedIsNoOp ==
  /\ [][RejectedCallStep =>
          /\ UNCHANGED <<signBuffer, timers, bufferTimer, lastSignTime,
                         nextTimerId, inflight>>
          /\ ret' = signBuffer]_vars
  /\ [](StopScenario => StopScenarioOutcome)

\* the STOP scenario has run to its flush
C9_Witness ==
  /\ StopScenario
  /\ ~calls[2].acc /\ ret = <<"STOP">>
  /\ Len(fires) = 1 /\ fires[1].t = Epoch + 4000

\* exactly the calls ONE at t = 0, ONE at t = 500 and TWO at t = 600, and
\* no clear
OneTwoScenario ==
  /\ Len(calls) = 3 /\ clears = <<>>
  /\ calls[1].sign = "ONE" /\ calls[1].t = Epoch
  /\ calls[2].sign = "ONE" /\ calls[2].t = Epoch + 500
  /\ calls[3].sign = "TWO" /\ calls[3].t = Epoch + 600

\* C10: ONE at t = 0 is accepted, ONE at t = 500 is rejected, TWO at t = 600
\* is accepted; with no further input exactly one flush fires, at t = 4600,
\* with snapshot <<ONE, TWO>>, and the direct-mode result has translation
\* "ONE TWO".
C10_OneTwoScenario ==
  OneTwoScenario =>
    /\ calls[1].acc /\ ~calls[2].acc /\ calls[3].acc
    /\ Len(fires) <= 1
    /\ \A i \in 1..Len(fires) :
         fires[i].t = Epoch + 4600 /\ fires[i].snapshot = <<"ONE", "TWO">>
    /\ timers = {} => Len(fires) = 1
    /\ \A tm \in timers : tm.deadline = Epoch + 4600
    /\ \A k \in 1..Len(delivered) :
         delivered[k].result.method = "direct" =>
           /\ delivered[k].result.translation = "ONE TWO"
           /\ delivered[k].result.success
    /\ (fires # <<>> /\ inflight = {}) => Len(delivered) = 1

\* the scenario has run to its flush in direct mode
C10_Witness ==
  /\ OneTwoScenario
  /\ Len(fires) = 1 /\ Len(delivered) = 1
  /\ delivered[1].result.method = "direct"
  /\ delivered[1].result.translation = "ONE TWO"

\* the step is an addSignToBuffer call
AddCallStep == Len(calls') = Len(calls) + 1

\* C11: at every moment getSignBuffer() is the sequence of tokens accepted
\* since the last flush or clearSignBuffer, in acceptance order; so is the
\* value every addSignToBuffer call returns, accepted or rejected; the
\* returned array is a fresh copy, and a caller changing it does not change
\* the live buffer.
C11_LiveBufferView ==
  /\ [](getSignBuffer = accepted /\ ~retLive)
  /\ [][AddCallStep => ret' = accepted']_vars
  /\ [][mutations' # mutations => signBuffer' = signBuffer]_vars

\* a caller changed the array a call returned while tokens were buffered
C11_Witness ==
  /\ mutations >= 1
  /\ signBuffer # <<>> /\ getSignBuffer = accepted
  /\ ret # signBuffer
  /\ \E i \in 1..Len(calls) : ~calls[i].acc

\* every flush is awaiting the backend or has reached the callback once
EveryFlushAccountedFor ==
  \A i \in 1..Len(fires) :
    Cardinality({tr \in inflight : tr.fire = i}) +
      Cardinality({k \in 1..Len(delivered) : delivered[k].fire = i}) = 1

\* what a failed backend call hands the callback, but for the method name
FallbackShape(k) ==
  LET d == delivered[k] IN
    /\ d.callback = fires[d.fire].callback
    /\ ~d.result.success
    /\ d.result.originalSigns = fires[d.fire].snapshot
    /\ d.result.translation = Join(fires[d.fire].snapshot, " ")

\* C12 as stated: a failed backend call still gives the callback a result
\* with success = false, method 'fallback', the input tokens and their
\* space-joined text.
C12_FallbackNeverThrows_Original ==
  /\ EveryFlushAccountedFor
  /\ \A k \in 1..Len(delivered) :
       delivered[k].via = "failed" =>
         FallbackShape(k) /\ delivered[k].result.method = "fallback"

\* C12 (amended): a failed backend call still gives the callback a result
\* with success = false, method 'fallback-direct', the input tokens and
\* their space-joined text; translateSignSequence does not throw.
C12_FallbackNeverThrows ==
  /\ EveryFlushAccountedFor
  /\ \A k \in 1..Len(delivered) :
       delivered[k].via = "failed" =>
         FallbackShape(k) /\ delivered[k].result.method = "fallback-direct"

\* the backend failed on a flush of two tokens and the callback got the
\* fallback
C12_Witness ==
  \E k \in 1..Len(delivered) :
    /\ delivered[k].via = "failed"
    /\ Len(delivered[k].result.originalSigns) = 2

\* flush i came from a call that passed useGemini = false or omitted it
DirectMode(i) == fires[i].arg \in {<<>>, <<FALSE>>}

\* C13: when useGemini is false or omitted, a flush makes no call to the
\* translation backend and invokes the callback with success = true,
\* method = 'direct', originalSigns equal to the snapshot and translation
\* equal to the snapshot's tokens joined by single spaces.
C13_DirectMode ==
  \A i \in 1..Len(fires) :
    DirectMode(i) =>
      /\ \A tr \in inflight : tr.fire # i
      /\ \E k \in 1..Len(delivered) :
           /\ delivered[k].fire = i
           /\ delivered[k].via = "direct"
           /\ delivered[k].callback = fires[i].callback
           /\ delivered[k].result =
                [success |-> TRUE, method |-> "direct",
                 originalSigns |-> fires[i].snapshot,
                 displaySigns |-> fires[i].snapshot,
                 translation |-> Join(fires[i].snapshot, " ")]

\* a call that omitted useGemini led to a direct flush of two tokens
C13_Witness ==
  \E i \in 1..Len(fires) :
    /\ fires[i].arg = <<>>
    /\ Len(fires[i].snapshot) = 2
    /\ \E k \in 1..Len(delivered) : delivered[k].fire = i

\* the callback invocations that flush i has caused so far
DeliveriesOf(i) == {k \in 1..Len(delivered) : delivered[k].fire = i}

\* no callback invocation carries an empty token list
NoEmptyDelivery ==
  \A k \in 1..Len(delivered) :
    /\ delivered[k].result.originalSigns # <<>>
    /\ delivered[k].result.displaySigns # <<>>

\* a due timer's callback runs and finds the buffer empty
EmptyFireStep ==
  /\ signBuffer = <<>>
  /\ \E tm \in timers : now >= tm.deadline /\ tm \notin timers'
  /\ calls' = calls /\ clears' = clears

\* C14: each flush-timer fire on a non-empty buffer leads to exactly one
\* callback invocation (never two, and one does come), the callback is never
\* invoked with an empty token list, and a timer firing on an empty buffer
\* changes nothing.
C14_OneResultPerFlush ==
  /\ [](\A i \in 1..Len(fires) : Cardinality(DeliveriesOf(i)) <= 1)
  /\ [](\A i \in 1..Len(fires) : fires[i].snapshot # <<>>)
  /\ []NoEmptyDelivery
  /\ [][EmptyFireStep =>
          UNCHANGED <<signBuffer, inflight, fires, delivered>>]_vars
  /\ \A i \in 1..MaxCalls :
       (Len(fires) >= i) ~> (Cardinality(DeliveriesOf(i)) = 1)

\* two flushes, the first answered by the backend, each with its one result
C14_Witness ==
  /\ Len(fires) = 2 /\ Len(delivered) = 2 /\ inflight = {}
  /\ delivered[1].via = "answered"
  /\ Cardinality(DeliveriesOf(1)) = 1 /\ Cardinality(DeliveriesOf(2)) = 1

\* C15: Translation Results are delivered to the callback in the order in
\* which their flush timers fired, in direct mode and in context-aware mode,
\* for any completion order of the backend calls.
C15_FifoDelivery ==
  \A k, l \in 1..Len(delivered) :
    k < l => delivered[k].fire < delivered[l].fire

\* s is a suffix of t
IsSuffix(s, t) ==
  /\ Len(s) <= Len(t)
  /\ \A j \in 1..Len(s) : s[j] = t[Len(t) - Len(s) + j]

\* an addSignToBuffer call made while a translation is awaited
AddWhileInFlight == inflight # {} /\ AddCallStep

\* every awaited translation and every result of a context-aware flush holds
\* exactly the tokens of its own flush
GenerationKeepsItsTokens ==
  /\ \A tr \in inflight : tr.signs = fires[tr.fire].snapshot
  /\ \A k \in 1..Len(delivered) :
       delivered[k].result.originalSigns = fires[delivered[k].fire].snapshot

\* the live buffer holds only tokens of calls made after the last flush
NoFlushedTokenReturns ==
  fires # <<>> =>
    /\ fires[Len(fires)].after = <<>>
    /\ IsSuffix(signBuffer, AcceptedFrom(fires[Len(fires)].calls))

\* the backend calls flush i has caused: direct flushes none, context-aware
\* flushes one, awaited or finished, and never a second attempt
OneBackendCall(i) ==
  LET awaited == {tr \in inflight : tr.fire = i}
      finished == {k \in DeliveriesOf(i) : delivered[k].via # "direct"}
  IN /\ Cardinality(awaited) + Cardinality(finished)
          = (IF fires[i].useGemini THEN 1 ELSE 0)
     /\ \A tr \in awaited : tr.attempt = 1

\* C16: while the context-aware translation of a flushed generation is in
\* flight, addSignToBuffer keeps accepting tokens (by its usual rule) into a
\* new buffer that started empty and starts a new timer; tokens of the new
\* generation never appear in the in-flight generation's result, flushed
\* tokens never reappear in the live buffer, and each generation causes at
\* most one backend call.
C16_OverlappingGenerations ==
  /\ [][AddWhileInFlight =>
          LET c == calls'[Len(calls')] IN
            /\ c.acc = ~Rejected(signBuffer, c.sign, now, lastSignTime)
            /\ signBuffer = <<>> => c.acc
            /\ c.acc => /\ signBuffer' = Append(signBuffer, c.sign)
                        /\ \E tm \in timers' :
                             tm.id = bufferTimer' /\ tm \notin timers]_vars
  /\ []GenerationKeepsItsTokens
  /\ []NoFlushedTokenReturns
  /\ [](\A i \in 1..Len(fires) : OneBackendCall(i))

\* ONE is being translated while TWO waits in the new buffer for its timer
C16_Witness ==
  /\ \E tr \in inflight : tr.signs = <<"ONE">>
  /\ signBuffer = <<"TWO">>
  /\ \E tm \in timers : tm.id = bufferTimer

\* a clearSignBuffer call
ClearStep == Len(clears') = Len(clears) + 1

\* the translation of flush i is awaited and clearSignBuffer has been called
\* since that flush
ClearedInFlight(i) ==
  /\ \E tr \in inflight : tr.fire = i
  /\ \E c \in 1..Len(clears) : clears[c].fires >= i

\* flush i has had its one result, from the backend or from the fallback, with
\* the tokens of the flush
DeliveredOnce(i) ==
  /\ Cardinality(DeliveriesOf(i)) = 1
  /\ \A k \in DeliveriesOf(i) :
       /\ delivered[k].via \in {"answered", "failed"}
       /\ delivered[k].callback = fires[i].callback
       /\ delivered[k].result.originalSigns = fires[i].snapshot

\* C17: clearSignBuffer called while a context-aware translation is in flight
\* does not cancel it: the translation stays awaited, runs to completion or
\* failure, and its result is delivered to the callback exactly once.
C17_ClearKeepsInFlight ==
  /\ [][ClearStep => inflight' = inflight /\ delivered' = delivered]_vars
  /\ \A i \in 1..MaxCalls :
       /\ ClearedInFlight(i) ~> DeliveredOnce(i)
       /\ [](i <= Len(fires) => Cardinality(DeliveriesOf(i)) <= 1)

\* clearSignBuffer has been called while the translation of ONE TWO is awaited
C17_Witness ==
  /\ ClearedInFlight(1)
  /\ fires[1].snapshot = <<"ONE", "TWO">>
  /\ signBuffer = <<>>

\* an accepted addSignToBuffer call and a clearSignBuffer call came after
\* flush i
LaterAddAndClear(i) ==
  /\ \E j \in 1..Len(calls) : j > fires[i].calls /\ calls[j].acc
  /\ \E c \in 1..Len(clears) : clears[c].fires >= i

\* C18: from the flush until after the callback returns, the snapshot handed
\* to dispatch (and the result's originalSigns) holds exactly the flushed
\* tokens in order, whatever addSignToBuffer and clearSignBuffer calls come
\* later.
C18_SnapshotReadOnly ==
  /\ [][/\ \A tr \in inflight : \A tr2 \in inflight' :
              tr2.fire = tr.fire => tr2.signs = tr.signs
        /\ \A k \in 1..Len(delivered) : delivered'[k] = delivered[k]
        /\ \A i \in 1..Len(fires) : fires'[i].snapshot = fires[i].snapshot
       ]_vars
  /\ [](\A tr \in inflight :
          tr.signs = fires[tr.fire].snapshot /\ tr.signs = fires[tr.fire].since)
  /\ [](\A k \in 1..Len(delivered) :
          LET i == delivered[k].fire IN
            /\ delivered[k].result.originalSigns = fires[i].since
            /\ delivered[k].result.displaySigns = fires[i].since
            /\ fires[i].snapshot = fires[i].since)

\* the backend's answer for the flush of ONE is delivered with ONE, after a
\* later accepted call and a clearSignBuffer
C18_Witness ==
  \E k \in 1..Len(delivered) :
    /\ delivered[k].via = "answered"
    /\ delivered[k].result.originalSigns = <<"ONE">>
    /\ LaterAddAndClear(delivered[k].fire)

\* C19: every Translation Result delivered to the callback carries a
\* non-empty translation string (direct mode, context-aware success and
\* fallback alike), so the text the Translator displays after a flush is
\* never empty.
C19_AlwaysSomeText ==
  \A k \in 1..Len(delivered) :
    /\ delivered[k].result.translation # ""
    /\ DisplayedText(delivered[k].result) # ""

\* C20 as stated: every delivered Translation Result has method equal to one
\* of direct, context-aware, fallback, and success is false exactly when
\* method is fallback.
C20_MethodEnum_Original ==
  \A k \in 1..Len(delivered) :
    LET res == delivered[k].result IN
      /\ res.method \in {"direct", "context-aware", "fallback"}
      /\ (res.success = FALSE) <=> (res.method = "fallback")

\* C20: every delivered Translation Result has method equal to one of
\* 'direct', 'gemini-context', 'fallback-direct' (direct branch, backend
\* answer, catch block respectively), and success is false exactly when
\* method is 'fallback-direct'.
C20_MethodEnum ==
  \A k \in 1..Len(delivered) :
    LET res == delivered[k].result IN
      /\ res.method \in {"direct", "gemini-context", "fallback-direct"}
      /\ (res.success = FALSE) <=> (res.method = "fallback-direct")
      /\ res.method = (CASE delivered[k].via = "direct" -> "direct"
                         [] delivered[k].via = "answered" -> "gemini-context"
                         [] delivered[k].via = "failed" -> "fallback-direct")

\* one result from the backend's answer and one from the catch block
C20_Witness ==
  \E k, l \in 1..Len(delivered) :
    /\ delivered[k].result.method = "gemini-context"
    /\ delivered[k].result.success
    /\ delivered[l].result.method = "fallback-direct"
    /\ ~delivered[l].result.success

\* C23: the two duplicate checks of addSignToBuffer together decide as the
\* single rule "accept iff the buffer is empty or its last entry differs from
\* the label": the time since the last acceptance never changes the decision,
\* and a call that finds the buffer empty (the first one after a flush or a
\* clearSignBuffer) is accepted.
C23_SingleRule ==
  [][AddCallStep =>
       LET c == calls'[Len(calls')] IN
         /\ c.acc <=> (signBuffer = <<>> \/ signBuffer[Len(signBuffer)] # c.sign)
         /\ c.acc <=> (signBuffer' = Append(signBuffer, c.sign))
         /\ ~c.acc <=> (signBuffer' = signBuffer)]_vars

\* a label was rejected 3000 ms or more after it was accepted, another label
\* was accepted inside the window, and a call right after a flush and one
\* right after a clearSignBuffer were accepted
C23_Witness ==
  /\ \E i, j \in 1..Len(calls) :
       /\ j = i + 1 /\ calls[i].acc /\ ~calls[j].acc
       /\ calls[j].t - calls[i].t >= RejectWindow
  /\ \E i, j \in 1..Len(calls) :
       /\ j = i + 1 /\ calls[i].acc /\ calls[j].acc
       /\ calls[j].t - calls[i].t < RejectWindow
  /\ \/ \E i \in 1..Len(fires), j \in 1..Len(calls) :
          fires[i].calls = j - 1 /\ calls[j].acc /\ calls[j].t = fires[i].t
     \/ \E i \in 1..Len(clears), j \in 1..Len(calls) :
          clears[i].calls = j - 1 /\ calls[j].acc /\ clears[i].buf # <<>>

\* C24: in every reachable state a flush timer is pending if and only if the
\* sign buffer is non-empty.
C24_TimerIffTokens ==
  (timers # {}) <=> (signBuffer # <<>>)

\* after a flush and a clearSignBuffer of a non-empty buffer, tokens are
\* waiting again for a pending timer
C24_Witness ==
  /\ fires # <<>>
  /\ \E i \in 1..Len(clears) : clears[i].buf # <<>>
  /\ signBuffer # <<>> /\ timers # {}

\* the elements of a sequence
Range(seq) == {seq[i] : i \in 1..Len(seq)}

\* C29: every sign that classifyASLSign returns is a member of the
\* vocabulary reported by getSupportedSigns() (the 12 RELIABLE_SIGNS), for
\* every finger-extension pattern and hand position.
C29_SupportedVocabulary ==
  \A i \in 1..Len(classified) :
    classified[i].sign # NoSign => classified[i].sign \in Range(getSupportedSigns)

\* the five extension booleans of the hand that recognizeSign was given
Extended(f) == isFingerExtended(hand[1], f)

\* C30: for every combination of the five finger-extension booleans,
\* recognizeSign returns THREE exactly when thumb, index and middle are
\* extended and ring and pinky are not, and PEACE exactly when index and
\* middle are the only extended fingers.
C30_ThreeAndPeace ==
  \A i \in 1..Len(recognized) :
    (hand[1].length = 21 /\ ~recognized[i].threw) =>
      /\ recognized[i].sign = "THREE" <=>
           {f \in Fingers : Extended(f)} = {"thumb", "index", "middle"}
      /\ recognized[i].sign = "PEACE" <=>
           {f \in Fingers : Extended(f)} = {"index", "middle"}

\* calls i and j of initializeGestureRecognizer were pending at the same time
Concurrent(i, j) == i \in initCalls[j].peers \/ j \in initCalls[i].peers

\* the callers that are between isInitializing = true and the end of their
\* creation attempt
Creating == {c \in Callers : pc[c] \in {"loading", "creating"}}

\* C27 as stated: at most one recognizer creation is in progress at a time,
\* every two concurrent calls return the same value, and once a recognizer
\* exists no later call creates another.
C27_SingleRecognizer_Original ==
  /\ Cardinality(Creating) <= 1
  /\ created <= 1
  /\ \A i, j \in 1..Len(initCalls) :
       (/\ Concurrent(i, j)
        /\ initCalls[i].value # <<>> /\ initCalls[j].value # <<>>)
       => initCalls[i].value = initCalls[j].value

\* C27: across any interleaving of concurrent initializeGestureRecognizer
\* calls, at most one recognizer creation is in progress at a time, every
\* call that returns a recognizer returns the same instance, the one that
\* gestureRecognizer holds (a call whose creation attempt failed returns
\* null), and once a recognizer exists no later call creates another.
C27_SingleRecognizer ==
  /\ Cardinality(Creating) <= 1
  /\ created <= 1
  /\ gestureRecognizer \in {0, 1}
  /\ (isInitializing <=> Creating # {})
  /\ \A i \in 1..Len(initCalls) :
       initCalls[i].value \in {<<>>, <<0>>, <<1>>}
  /\ \A i \in 1..Len(initCalls) :
       (gestureRecognizer = 0) => initCalls[i].value # <<1>>

\* a call that waited for a creation in progress and a later call both got
\* the instance, and the call whose creation failed, concurrent with the
\* waiting one, got null
C27_Witness ==
  \E i, j, k \in 1..Len(initCalls) :
    /\ Concurrent(i, j)
    /\ initCalls[i].value = <<0>>
    /\ initCalls[j].value = <<1>>
    /\ initCalls[k].value = <<1>> /\ k # j

\* C21: every detection that HandTracker forwards to addSignToBuffer has a
\* non-null sign and a confidence of at least 0.85, whichever classifier
\* (gesture recognizer or heuristic fallback) produced it.
C21_UpstreamFiltering ==
  \A i \in 1..Len(seen) :
    seen[i].forwarded => seen[i].sign # NoSign /\ seen[i].confidence >= 85

\* frame handler f makes one pass of its loop
LoopPass(f) == HandReady(f) /\ frame'[f] # frame[f]

\* C22: when the gesture recognizer or the heuristic classifier fails on a
\* hand, no exception leaves the frame handler, no null label is passed to
\* addSignToBuffer, a sign that is forwarded comes from the classifier that
\* did not fail, and when no sign is found the buffer, the timer and the
\* last forwarded sign stay as they are.
C22_ClassifierErrors ==
  [][\A f \in Frames :
       (LoopPass(f) /\ seen'[1].failed # {}) =>
         /\ pc'[f] # "threw" /\ ~seen'[1].threw
         /\ Len(calls') > Len(calls) => calls'[Len(calls')].sign # NoSign
         /\ seen'[1].forwarded => seen'[1].method = "Heuristic"
         /\ seen'[1].sign = NoSign =>
              UNCHANGED <<signBuffer, bufferTimer, timers, lastSignTime,
                          calls, lastSignRef>>]_vars

\* both classifiers failed on a hand while tokens were waiting in the
\* buffer, and the handler went on to the end of its loop
C22_Witness ==
  /\ seen # <<>> /\ seen[1].failed = {"recognizer", "heuristic"}
  /\ signBuffer # <<>> /\ timers # {}
  /\ \A f \in Frames : pc[f] \in {"idle", "done"}

\* C25: after the unmount no token is in the module-level buffer, no flush
\* timer is pending and no translation callback has fired, also when a
\* frame handler was suspended at an await when the unmount happened.
C25_QuietAfterUnmount ==
  /\ ~mounted => signBuffer = <<>> /\ timers = {}
  /\ \A k \in 1..Len(handled) : handled[k].live

\* C26: every successful result that is delivered while a user is signed in
\* is saved to that user's history with its signs, translation and method,
\* also when the user signed in after the mount.
C26_SavedWhenSignedIn ==
  \A k \in 1..Len(handled) :
    (delivered[k].result.success /\ handled[k].user # <<>>) =>
      handled[k].saved =
        <<[uid |-> handled[k].user[1],
           signs |-> delivered[k].result.originalSigns,
           translation |-> delivered[k].result.translation,
           method |-> delivered[k].result.method]>>

\* C28: HandTracker forwards a sign that it has forwarded before only when
\* more than 5000 ms have passed since, or when a frame without hands came
\* in between, for frames with one hand and with two.
C28_RepeatAfterPause ==
  [][Len(calls') > Len(calls) =>
       LET c == calls'[Len(calls')] IN
         \A i \in 1..Len(calls) :
           calls[i].sign = c.sign =>
             c.t - calls[i].t > RepeatAfter \/ handsLeft >= i]_vars

\* the entries of the window that count for sign s: that sign, with a
\* confidence above 0.5
Votes(s) ==
  {i \in 1..Len(window) : window[i].sign = s /\ window[i].confidence > 50}
SmoothedSigns == {d.sign : d \in Detections} \ {NoSign}

\* C31: with the default window of 3 and threshold 0.4, getStableSign returns
\* a non-null sign s only if at least 2 window entries have sign s with a
\* confidence above 0.5, and then reports the confidence count/3; otherwise it
\* returns sign null with confidence 0; at most one sign can qualify.
C31_StableSign ==
  /\ Cardinality({s \in SmoothedSigns : Cardinality(Votes(s)) >= 2}) <= 1
  /\ stable # <<>> =>
       LET r == stable[1] IN
         IF r.sign # NoSign
           THEN /\ Cardinality(Votes(r.sign)) >= 2
                /\ r.confidence.den = 3
                /\ r.confidence.num = Cardinality(Votes(r.sign))
           ELSE /\ r.confidence.num = 0
                /\ \A s \in SmoothedSigns : Cardinality(Votes(s)) < 2

\* getStableSign answered YES with 2/3 on a full window that also holds a
\* confident HELLO
C31_Witness ==
  /\ stable # <<>>
  /\ stable[1].sign = "YES"
  /\ stable[1].confidence = [num |-> 2, den |-> 3]
  /\ Len(window) = 3
  /\ \E i \in 1..3 : window[i].sign = "HELLO" /\ window[i].confidence = 90

\* the entries of the window added at most 2000 ms ago
Fresh == SelectSeq(window, LAMBDA item : now - item.timestamp <= MaxAge)

\* C32: the window holds at most windowSize entries, and whenever
\* getStableSign is called no detection added more than 2000 ms earlier
\* contributes to its result: the result is the one the entries added in the
\* last 2000 ms give.
C32_NoStaleDetections ==
  /\ Len(window) <= windowSize
  /\ stable # <<>> => stable[1] = getStableSign(Fresh)

\* the calls made before flush i
CallsBefore(i) == 1..fires[i].calls
\* the first call of the generation of flush i: the one after the previous
\* flush and after every clearSignBuffer made before flush i
GenerationStart(i) ==
  LET ends == {0} \cup {fires[j].calls : j \in 1..(i - 1)}
                  \cup {clears[c].calls : c \in {x \in 1..Len(clears) :
                                                   clears[x].fires < i}}
  IN 1 + CHOOSE m \in ends : \A e \in ends : e <= m
\* the most recent accepted call before flush i (0: none)
LatestAccepted(i) ==
  LET acc == {k \in CallsBefore(i) : calls[k].acc} IN
    IF acc = {} THEN 0 ELSE CHOOSE k \in acc : \A x \in acc : x <= k

\* C33: a flush uses the callback and the useGemini that were passed to the
\* most recent accepted addSignToBuffer call of its generation, for the
\* choice of the translation mode and for every invocation of the callback;
\* what earlier accepted calls or rejected calls passed is not used.
C33_LatestHandler ==
  Len(passed) = Len(calls) =>
    \A i \in 1..Len(fires) :
      LET k == LatestAccepted(i) IN
        /\ k >= GenerationStart(i)
        /\ fires[i].callback = passed[k].callback
        /\ fires[i].useGemini = (passed[k].arg = <<TRUE>>)
        /\ \A d \in 1..Len(delivered) :
             delivered[d].fire = i =>
               /\ delivered[d].callback = passed[k].callback
               /\ (delivered[d].via = "direct") = (passed[k].arg # <<TRUE>>)
        /\ \A tr \in inflight :
             tr.fire = i =>
               tr.callback = passed[k].callback /\ passed[k].arg = <<TRUE>>

\* a flush was delivered whose generation had an earlier accepted call and a
\* later rejected call, both with another callback and mode than the most
\* recent accepted call
C33_Witness ==
  /\ Len(passed) = Len(calls)
  /\ \E i \in 1..Len(fires) :
       LET k == LatestAccepted(i) IN
         /\ \E d \in 1..Len(delivered) : delivered[d].fire = i
         /\ \E a \in GenerationStart(i)..(k - 1) :
              calls[a].acc /\ passed[a] # passed[k]
         /\ \E r \in (k + 1)..fires[i].calls :
              ~calls[r].acc /\ passed[r] # passed[k]

\* C34: in a frame with two hands, the sign HandTracker forwards for hand i
\* is derived from hand i's own landmarks or gesture, not from the other
\* hand's.
C34_OwnHand ==
  seen # <<>> /\ seen[1].hands = 2 /\ seen[1].forwarded =>
    seen[1].from = seen[1].i

\* C35: if the initialization of the gesture recognizer fails,
\* initializeGestureRecognizer resolves to null without throwing and clears
\* isInitializing: the flag is set only while a creation is in progress, so
\* a caller waiting on it leaves its loop and a later call starts a new
\* creation; recognizeGestures, finding no recognizer after its call, then
\* resolves with empty gestures and landmarks instead of throwing.
C35_FailedInit ==
  /\ \A k \in 1..Len(initCalls) :
       initCalls[k].failed =>
         /\ initCalls[k].value = <<0>>
         /\ active[initCalls[k].caller] # k
  /\ isInitializing = (Creating # {})
  /\ seen # <<>> /\ seen[1].recognizer = 0 =>
       /\ seen[1].gestureResults =
            [gestures |-> <<>>, landmarks |-> <<>>, threw |-> FALSE]
       /\ "recognizer" \notin seen[1].failed

\* a creation failed while another call was waiting for it; the waiting call
\* returned null, a frame handler went on without a recognizer, and a later
\* call has started a new creation
C35_Witness ==
  /\ \E k, w, m \in 1..Len(initCalls) :
       /\ initCalls[k].failed
       /\ k \in initCalls[w].peers /\ initCalls[w].value = <<0>>
       /\ ~initCalls[w].failed
       /\ m > k /\ active[initCalls[m].caller] = m
       /\ pc[initCalls[m].caller] \in {"loading", "creating"}
  /\ seen # <<>> /\ seen[1].recognizer = 0
  /\ seen[1].gestureResults.gestures = <<>>

\* the characters of text that are letters, digits or "_", in upper case
RECURSIVE WordCharsOf(_)
WordCharsOf(text) ==
  IF Len(text) = 0 THEN text
  ELSE LET c == UpperOf(SubSeq(text, 1, 1)) IN
         (IF c \in WordChars THEN c ELSE "")
           \o WordCharsOf(SubSeq(text, 2, Len(text)))

\* the helper call reached the backend and the backend call failed
BackendFailed(call) ==
  /\ ~call.outcome.ok
  /\ call.fn = "textToSignGuidance" => call.apiKey \notin {"", "demo"}

\* C36: analyzeGestureImage, getSignExplanation and textToSignGuidance never
\* reject when the backend call fails: analyzeGestureImage resolves with
\* success = false and signName 'UNKNOWN', getSignExplanation with
\* success = false and a placeholder explanation, textToSignGuidance with
\* success = true and the fallback word list, the words of the text in upper
\* case without punctuation, none of them empty.
C36_HelpersNeverReject ==
  answered # <<>> =>
    LET call == asked[1]
        r == answered[1]
    IN /\ ~r.rejected
       /\ BackendFailed(call) /\ call.fn = "analyzeGestureImage" =>
            r.success = FALSE /\ r.signName = "UNKNOWN"
       /\ BackendFailed(call) /\ call.fn = "getSignExplanation" =>
            r.success = FALSE /\ r.explanation = "Explanation unavailable"
       /\ BackendFailed(call) /\ call.fn = "textToSignGuidance" =>
            /\ r.success = TRUE
            /\ r.method = "fallback-error"
            /\ \A k \in 1..Len(r.signs) :
                 /\ r.signs[k] # ""
                 /\ Chars(r.signs[k]) \subseteq WordChars \ Chars(LowerCase)
            /\ Join(r.signs, "") = WordCharsOf(call.text)

\* the backend failed on a text with punctuation, a double space and spaces
\* at both ends, and textToSignGuidance resolved with its three words
C36_Witness ==
  /\ answered # <<>>
  /\ asked[1].fn = "textToSignGuidance"
  /\ BackendFailed(asked[1])
  /\ asked[1].text = " what is  your_name? "
  /\ answered[1].signs = <<"WHAT", "IS", "YOUR_NAME">>
====
